---- MODULE Spec2Model ----
(***************************************************************************)
(* A model of the Filen WebDAV server: the per-user namespace overlay      *)
(* (virtual files, disk-scratch files, backend), the verb handlers that    *)
(* read and change it, the request body framer, and the authenticator.     *)
(*                                                                         *)
(* Strings are sequences of tokens.  A path is the sequence of its         *)
(* segments: <<>> is "/", <<"d", "a">> is "/d/a".                          *)
(***************************************************************************)
EXTENDS Integers, Sequences, FiniteSets, TLC

VARIABLES
    items,          \* the backend SDK's file system, by path (what stat sees)
    virtualFiles,   \* WebDAVServer.virtualFiles[username]
    tempDiskFiles,  \* WebDAVServer.tempDiskFiles[username]
    tempDisk,       \* the files of the scratch directory, by tempDiskId
    last,           \* the last request served and its response
    proxyMode,         \* WebDAVServer.proxyMode
    authMode,          \* WebDAVServer.authMode
    defaultUsername,   \* WebDAVServer.defaultUsername
    defaultPassword,   \* WebDAVServer.defaultPassword
    users,             \* WebDAVServer.users: the password of each bound user, by username
    authedFilenUsers,  \* Auth.authedFilenUsers: the raw password that logged in, by username
    authLast,          \* the last request the authenticator saw and what it did
    accounts,          \* the backend's accounts: the password and the two-factor code, by email
    inFlight,          \* the requests inside Auth.filenAuth and Auth.mutex by username; the
                       \* PUTs inside Put.handle and the bodies the backend has stored
    tenants            \* in a proxy: the backend items, virtualFiles and tempDiskFiles of each user

nsVars == <<items, virtualFiles, tempDiskFiles, tempDisk, last>>

sessionVars ==
    <<proxyMode, authMode, defaultUsername, defaultPassword, users, authedFilenUsers,
      authLast, accounts, inFlight>>

authVars == <<sessionVars, tenants>>

vars == <<nsVars, authVars>>

(***************************************************************************)
(* Bounds and inputs                                                       *)
(***************************************************************************)

Root == <<>>

\* The file paths requests name: PUT, DELETE, MOVE, COPY, PROPPATCH, GET, HEAD.
FilePaths == {<<"t">>, <<"d", "a">>}

\* The directory paths requests name: MKCOL, DELETE, GET, HEAD, PROPFIND.
DirPaths == {<<"d">>}

\* Every path the backend may hold an item at.
ItemPaths == FilePaths \cup DirPaths \cup {Root}

\* tempFilesToStoreOnDisk: the glob list, here the file names it matches.
ScratchNames == {"t"}

\* The one user of single-tenant mode.
DefaultUser == <<"u">>

\* The longest request body, in bytes.
MaxBody == 2

\* The bytes a client streams, in order: 2, 1, 2, 1, ...
Byte(i) == IF i % 2 = 1 THEN 2 ELSE 1

\* The first n bytes a client streams.
Stream(n) == [i \in 1..n |-> Byte(i)]

\* The request bodies, as byte strings: no byte, the one byte the framer peeks,
\* and the longest stream.
Bodies == {Stream(0), Stream(1), Stream(MaxBody)}

(***************************************************************************)
(* Paths                                                                   *)
(***************************************************************************)

dirname(p) == IF Len(p) = 0 THEN Root ELSE SubSeq(p, 1, Len(p) - 1)

basename(p) == IF Len(p) = 0 THEN "" ELSE p[Len(p)]

\* removeLastSlash: a path written with a slash at its end has an empty last
\* segment, <<"d", "">> is "/d/".
removeLastSlash(p) ==
    IF Len(p) > 0 /\ p[Len(p)] = "" THEN SubSeq(p, 1, Len(p) - 1) ELSE p

\* p is q or lies below q.
IsUnder(p, q) == Len(p) >= Len(q) /\ SubSeq(p, 1, Len(q)) = q

\* The path of p once the subtree at from has been moved to to.
Rebase(p, from, to) == to \o SubSeq(p, Len(from) + 1, Len(p))

\* A matcher with no pattern: no path is stored in the scratch directory.
putMatcherNothing(p) == FALSE

putMatcher(p) == basename(p) \in ScratchNames

\* Two users of a proxy, by the characters of their usernames.
Alice ==
    <<"a", "l", "i", "c", "e", ".", "s", "m", "i", "t", "h", "@", "e", "x", "a",
      "m", "p", "l", "e", ".", "c", "o", "m">>

Mallory ==
    <<"a", "l", "i", "c", "e", ".", "s", "m", "+", "1", "9", "3", "9", "1", "6",
      "5", "5", "5", "7", "@", "e", "x", "a", "m", "p", "l", "e", ".", "c", "o",
      "m">>

\* The string of a path: a "/" before every segment.
RECURSIVE PathString(_)
PathString(p) == IF Len(p) = 0 THEN <<>> ELSE <<"/", Head(p)>> \o PathString(Tail(p))

\* xxHash32(input, 0).toString(16) of js-xxhash, tabulated for the inputs of
\* the model with the digests the algorithm gives them.
xxHash32(input) ==
    CASE input = <<"u", "_", "/", "t">> -> "fb17d90f"
      [] input = <<"u", "_", "/", "d", "/", "a">> -> "cbe98696"
      [] input = <<"u", "_", "/", "t", "/", "a">> -> "a38ce701"
      [] input = <<"u", "_", "/", "d">> -> "5b17949b"
      [] input = Alice \o <<"_", "/", "t">> -> "8afa6e2d"
      [] input = Alice \o <<"_", "/", "d", "/", "a">> -> "a6688787"
      [] input = Mallory \o <<"_", "/", "t">> -> "8afa6e2d"
      [] input = Mallory \o <<"_", "/", "d", "/", "a">> -> "d545f544"

\* input.substring(0, 8) + hash + input.substring(input.length - 8)
fastStringHash(input) ==
    SubSeq(input, 1, IF Len(input) < 8 THEN Len(input) ELSE 8)
    \o <<xxHash32(input)>>
    \o SubSeq(input, IF Len(input) < 8 THEN 1 ELSE Len(input) - 7, Len(input))

\* The characters of invalidChars are removed (the names of the model have no
\* trailing dot and no white space, and are shorter than 255 characters).
sanitizeFileName(fileName) ==
    SelectSeq(fileName, LAMBDA c : c \notin {"<", ">", ":", "\"", "/", "\\", "|", "?", "*"})

pathToTempDiskFileId(p, username) ==
    sanitizeFileName(fastStringHash(username \o <<"_">> \o PathString(p)))

DiskIds == {pathToTempDiskFileId(p, DefaultUser) : p \in FilePaths}

NoId == <<>>

(***************************************************************************)
(* Resources                                                               *)
(***************************************************************************)

NoItem == [type |-> "none", data |-> <<>>]

DirItem == [type |-> "directory", data |-> <<>>]

FileItem(d) == [type |-> "file", data |-> d]

NoFile == [exists |-> FALSE, data |-> <<>>]

DiskFile(d) == [exists |-> TRUE, data |-> d]

NoResource ==
    [type |-> "none", path |-> Root, isVirtual |-> FALSE, tempDiskId |-> NoId, size |-> 0]

VirtualResource(p) ==
    [type |-> "file", path |-> p, isVirtual |-> TRUE, tempDiskId |-> NoId, size |-> 0]

DiskResource(p, id, n) ==
    [type |-> "file", path |-> p, isVirtual |-> FALSE, tempDiskId |-> id, size |-> n]

StatResource(p, item) ==
    [type |-> item.type, path |-> p, isVirtual |-> FALSE, tempDiskId |-> NoId,
     size |-> Len(item.data)]

(***************************************************************************)
(* The backend SDK, as the handlers use it                                 *)
(***************************************************************************)

FsStat(its, p) == IF p \in DOMAIN its THEN its[p] ELSE NoItem

\* mkdir returns the existing item's uuid when the path exists.
FsMkdir(its, p) ==
    IF p \in DOMAIN its /\ its[p].type = "none" THEN [its EXCEPT ![p] = DirItem] ELSE its

\* unlink removes the item and everything below it.
FsUnlink(its, p) ==
    [x \in DOMAIN its |-> IF x # Root /\ IsUnder(x, p) THEN NoItem ELSE its[x]]

\* rename and cp need the source, a free destination outside the source, and a
\* destination parent that is no file (a missing parent is created).
CanRename(its, from, to) ==
    /\ from \in DOMAIN its
    /\ its[from].type # "none"
    /\ ~IsUnder(to, from)
    /\ to \in DOMAIN its
    /\ its[to].type = "none"
    /\ its[dirname(to)].type # "file"

\* rename moves the item and everything below it.
FsRename(its, from, to) ==
    [x \in DOMAIN its |->
        IF IsUnder(x, to) /\ Rebase(x, to, from) \in DOMAIN its THEN its[Rebase(x, to, from)]
        ELSE IF x # Root /\ IsUnder(x, from) THEN NoItem
        ELSE IF x = dirname(to) THEN DirItem
        ELSE its[x]]

\* cp copies the item and everything below it.
FsCp(its, from, to) ==
    [x \in DOMAIN its |->
        IF IsUnder(x, to) /\ Rebase(x, to, from) \in DOMAIN its THEN its[Rebase(x, to, from)]
        ELSE IF x = dirname(to) THEN DirItem
        ELSE its[x]]

\* uploadLocalFileStream followed by _removeItem and _addItem: the path holds the
\* uploaded file.
FsUpload(its, p, d) ==
    [x \in DOMAIN its |->
        IF x = p THEN FileItem(d)
        ELSE IF x # Root /\ IsUnder(x, p) THEN NoItem
        ELSE its[x]]

\* Every item below from has a place in the modelled paths once moved to to.
InUniverse(its, from, to) ==
    \A x \in DOMAIN its :
        IsUnder(x, from) /\ its[x].type # "none" => Rebase(x, from, to) \in DOMAIN its


(***************************************************************************)
(* ResourceResolver                                                        *)
(***************************************************************************)

urlToResource(its, vf, df, url) ==
    IF url \in DOMAIN vf /\ vf[url].type # "none" THEN vf[url]
    ELSE IF url \in DOMAIN df /\ df[url].type # "none" THEN df[url]
    ELSE IF FsStat(its, url).type = "none" THEN NoResource
    ELSE StatResource(url, FsStat(its, url))

\* A resolver that looks in the scratch map before the virtual map.
pathToResourceDiskFirst(its, vf, df, path) ==
    IF path \in DOMAIN df /\ df[path].type # "none" THEN df[path]
    ELSE IF path \in DOMAIN vf /\ vf[path].type # "none" THEN vf[path]
    ELSE IF FsStat(its, path).type = "none" THEN NoResource
    ELSE StatResource(path, FsStat(its, path))

pathToResource(its, vf, df, path) ==
    IF path \in DOMAIN vf /\ vf[path].type # "none" THEN vf[path]
    ELSE IF path \in DOMAIN df /\ df[path].type # "none" THEN df[path]
    ELSE IF FsStat(its, path).type = "none" THEN NoResource
    ELSE StatResource(path, FsStat(its, path))

(***************************************************************************)
(* RequestBodyFramer                                                       *)
(***************************************************************************)

\* body(): req.read(1), the first byte of the body, or null (here <<>>).
firstBodyChunk(b) == IF Len(b) = 0 THEN <<>> ELSE <<Head(b)>>

\* What the request stream still holds once the framer has read.
Unread(b) == IF Len(b) = 0 THEN <<>> ELSE Tail(b)

\* Put.handle: stream.write(req.firstBodyChunk), then req.pipe(stream).
\* A stream that forgets the byte the framer peeked.
PutStreamWithoutPeeked(b) == Unread(b)

PutStream(b) == firstBodyChunk(b) \o Unread(b)

(***************************************************************************)
(* What a handler leaves behind                                            *)
(***************************************************************************)

Call(fn, path, permanent) == [fn |-> fn, path |-> path, permanent |-> permanent]

\* An unlink that deletes for good.
unlinkForGood(path) == Call("unlink", path, TRUE)

\* sdk.fs().unlink({ path, permanent: false }), as DELETE and the MOVE and
\* COPY of a backend source call it: the item goes to the trash.
unlinkToTrash(path) == Call("unlink", path, FALSE)

Out(its, vf, df, td, status, calls, data, names) ==
    [items |-> its, vf |-> vf, df |-> df, td |-> td, status |-> status,
     calls |-> calls, data |-> data, names |-> names]

\* A response with no body.
Reply(its, vf, df, td, status, calls) == Out(its, vf, df, td, status, calls, <<>>, {})

Request(op, path, dest, overwrite, body) ==
    [op |-> op, path |-> path, dest |-> dest, overwrite |-> overwrite, body |-> body]


(***************************************************************************)
(* MethodHandlers: each takes the state it runs in and gives what it       *)
(* leaves behind.                                                          *)
(***************************************************************************)

\* A Put.handle that leaves the virtual entry of the path in place when it stores a body.
Put_handleKeepingVirtual(username, its, vf, df, td, path, body) ==
    LET parentPath   == dirname(path)
        thisResource == pathToResource(its, vf, df, path)
        its1         == FsMkdir(its, parentPath)
        mk           == <<Call("mkdir", parentPath, FALSE)>>
        parentResource == pathToResource(its1, vf, df, parentPath)
        id           == pathToTempDiskFileId(path, username)
        written      == PutStream(body)
    IN  IF thisResource.type = "directory" THEN Reply(its, vf, df, td, 403, <<>>)
        ELSE IF parentResource.type # "directory" THEN Reply(its1, vf, df, td, 412, mk)
        ELSE IF Len(firstBodyChunk(body)) = 0 THEN
            Reply(its1, [vf EXCEPT ![path] = VirtualResource(path)],
                  [df EXCEPT ![path] = NoResource], td, 201, mk)
        ELSE IF putMatcher(path) THEN
            Reply(its1, vf,
                  [df EXCEPT ![path] = DiskResource(path, id, Len(written))],
                  [td EXCEPT ![id] = DiskFile(written)], 201,
                  mk \o <<Call("fs.rm", path, FALSE), Call("fs.write", path, FALSE)>>)
        ELSE
            Reply(FsUpload(its1, path, written), vf,
                  [df EXCEPT ![path] = NoResource], td, 201,
                  mk \o <<Call("uploadLocalFileStream", path, FALSE)>>)

\* Put.handle
\* A check that takes every resource for a directory.
notDirectoryNever(resource) == FALSE

\* Put.handle and Mkcol.handle: the parent is missing or is no directory.
notDirectory(resource) == resource.type # "directory"

Put_handle(username, its, vf, df, td, path, body) ==
    LET parentPath   == dirname(path)
        thisResource == pathToResource(its, vf, df, path)
        its1         == FsMkdir(its, parentPath)
        mk           == <<Call("mkdir", parentPath, FALSE)>>
        parentResource == pathToResource(its1, vf, df, parentPath)
        id           == pathToTempDiskFileId(path, username)
        written      == PutStream(body)
    IN  IF thisResource.type = "directory" THEN Reply(its, vf, df, td, 403, <<>>)
        ELSE IF notDirectory(parentResource) THEN Reply(its1, vf, df, td, 412, mk)
        ELSE IF Len(firstBodyChunk(body)) = 0 THEN
            Reply(its1, [vf EXCEPT ![path] = VirtualResource(path)],
                  [df EXCEPT ![path] = NoResource], td, 201, mk)
        ELSE IF putMatcher(path) THEN
            Reply(its1, [vf EXCEPT ![path] = NoResource],
                  [df EXCEPT ![path] = DiskResource(path, id, Len(written))],
                  [td EXCEPT ![id] = DiskFile(written)], 201,
                  mk \o <<Call("fs.rm", path, FALSE), Call("fs.write", path, FALSE)>>)
        ELSE
            Reply(FsUpload(its1, path, written), [vf EXCEPT ![path] = NoResource],
                  [df EXCEPT ![path] = NoResource], td, 201,
                  mk \o <<Call("uploadLocalFileStream", path, FALSE)>>)

\* Put.handle when uploadLocalFileStream fails: the SDK either calls onError,
\* which deletes the entries of the path and answers 500, or only rejects,
\* and the catch block answers 500.
Put_handleUploadFails(its, vf, df, td, path, body, onError) ==
    LET parentPath   == dirname(path)
        thisResource == pathToResource(its, vf, df, path)
        its1         == FsMkdir(its, parentPath)
        mk           == <<Call("mkdir", parentPath, FALSE)>>
        parentResource == pathToResource(its1, vf, df, parentPath)
        calls        == mk \o <<Call("uploadLocalFileStream", path, FALSE),
                                Call("throw", path, FALSE)>>
    IN  IF thisResource.type = "directory" THEN Reply(its, vf, df, td, 403, <<>>)
        ELSE IF notDirectory(parentResource) THEN Reply(its1, vf, df, td, 412, mk)
        ELSE IF Len(firstBodyChunk(body)) = 0 \/ putMatcher(path) THEN
            Put_handle(DefaultUser, its, vf, df, td, path, body)
        ELSE IF onError THEN
            Reply(its1, [vf EXCEPT ![path] = NoResource], [df EXCEPT ![path] = NoResource],
                  td, 500, calls)
        ELSE Reply(its1, vf, df, td, 500, calls)

\* Delete.handle
Delete_handle(its, vf, df, td, url) ==
    LET resource == urlToResource(its, vf, df, url)
    IN  IF resource.type = "none" THEN Reply(its, vf, df, td, 404, <<>>)
        ELSE IF resource.isVirtual THEN
            Reply(its, [vf EXCEPT ![resource.path] = NoResource], df, td, 200, <<>>)
        ELSE IF resource.tempDiskId # NoId THEN
            Reply(its, vf, [df EXCEPT ![resource.path] = NoResource],
                  [td EXCEPT ![resource.tempDiskId] = NoFile], 200,
                  <<Call("fs.rm", resource.path, FALSE)>>)
        ELSE
            Reply(FsUnlink(its, resource.path), vf, df, td, 200,
                  <<unlinkToTrash(resource.path)>>)

\* Mkcol.handle
Mkcol_handle(its, vf, df, td, path) ==
    LET parentPath     == dirname(path)
        parentResource == pathToResource(its, vf, df, parentPath)
        thisResource   == pathToResource(its, vf, df, path)
    IN  IF notDirectory(parentResource) THEN Reply(its, vf, df, td, 403, <<>>)
        ELSE IF thisResource.type = "directory" THEN Reply(its, vf, df, td, 403, <<>>)
        ELSE Reply(FsMkdir(its, path), vf, df, td, 201, <<Call("mkdir", path, FALSE)>>)

\* Mkcol.handle when sdk.fs().mkdir rejects.  The handler has a finally and no
\* catch, so its promise rejects: either nothing answers the request, or the
\* Errors middleware does, with 500 and the text it ends the response with.
Mkcol_handleMkdirThrows(its, vf, df, td, path, errorsMiddleware) ==
    LET parentPath     == dirname(path)
        parentResource == pathToResource(its, vf, df, parentPath)
        thisResource   == pathToResource(its, vf, df, path)
        calls          == <<Call("mkdir", path, FALSE), Call("throw", path, FALSE)>>
    IN  IF notDirectory(parentResource) THEN Reply(its, vf, df, td, 403, <<>>)
        ELSE IF thisResource.type = "directory" THEN Reply(its, vf, df, td, 403, <<>>)
        ELSE IF errorsMiddleware THEN
            Out(its, vf, df, td, 500, calls, <<"Internal server error">>, {})
        ELSE Reply(its, vf, df, td, 0, calls)

\* Get.handle, without a Range header
Get_handle(its, vf, df, td, url) ==
    LET resource == urlToResource(its, vf, df, url)
    IN  IF resource.type = "none" \/ resource.type = "directory" THEN
            Reply(its, vf, df, td, 404, <<>>)
        ELSE IF resource.isVirtual THEN Reply(its, vf, df, td, 200, <<>>)
        ELSE IF resource.tempDiskId # NoId THEN
            IF td[resource.tempDiskId].exists
            THEN Out(its, vf, df, td, 200, <<>>,
                     SubSeq(td[resource.tempDiskId].data, 1, resource.size), {})
            ELSE Reply(its, vf, df, td, 500, <<>>)
        ELSE Out(its, vf, df, td, 200, <<Call("downloadFileToReadableStream", url, FALSE)>>,
                 FsStat(its, resource.path).data, {})

\* Head.handle, without a Range header
\* Get.handle when sdk.fs().stat throws for another reason than a missing
\* path: the catch of urlToResource returns null for every error, and the
\* handler goes on as for a path that does not exist.
Get_handleStatThrows(its, vf, df, td, url) ==
    LET unreachable == [x \in DOMAIN its |-> NoItem]
        out         == Get_handle(unreachable, vf, df, td, url)
    IN  IF urlToResource(unreachable, vf, df, url) # NoResource
        THEN Get_handle(its, vf, df, td, url)
        ELSE [out EXCEPT !.items = its,
                         !.calls = <<Call("stat", url, FALSE), Call("throw", url, FALSE)>>]

Head_handle(its, vf, df, td, url) ==
    LET resource == urlToResource(its, vf, df, url)
    IN  IF resource.type = "none" THEN Reply(its, vf, df, td, 404, <<>>)
        ELSE IF resource.type = "directory" THEN Reply(its, vf, df, td, 403, <<>>)
        ELSE Reply(its, vf, df, td, 200, <<>>)

\* readdir: the names of the items right below the directory.
FsReaddir(its, p) ==
    {basename(x) : x \in {y \in DOMAIN its : y # Root /\ dirname(y) = p /\ its[y].type # "none"}}

\* Propfind.handle: the names of the children listed for a directory at depth 1.
Propfind_handle(its, vf, df, td, url, depth) ==
    LET resource == urlToResource(its, vf, df, url)
        virtual  == {basename(x) : x \in {y \in DOMAIN vf : vf[y].type # "none" /\ dirname(y) = resource.path}}
        disk     == {basename(x) : x \in {y \in DOMAIN df : df[y].type # "none" /\ dirname(y) = resource.path}}
    IN  IF resource.type = "none" THEN Reply(its, vf, df, td, 404, <<>>)
        ELSE IF resource.type = "directory" /\ depth # 0 THEN
            Out(its, vf, df, td, 207, <<Call("readdir", resource.path, FALSE)>>, <<>>,
                FsReaddir(its, resource.path) \cup virtual \cup disk)
        ELSE Reply(its, vf, df, td, 207, <<>>)

\* Proppatch.handle: the timestamps it sets are not part of this model's resources.
Proppatch_handle(its, vf, df, td, url, valid) ==
    LET resource == urlToResource(its, vf, df, url)
    IN  IF resource.type = "none" THEN Reply(its, vf, df, td, 404, <<>>)
        ELSE IF resource.type # "file" THEN Reply(its, vf, df, td, 207, <<>>)
        ELSE IF ~valid THEN Reply(its, vf, df, td, 207, <<>>)
        ELSE IF resource.isVirtual \/ resource.tempDiskId # NoId THEN
            Reply(its, vf, df, td, 207, <<>>)
        ELSE Reply(its, vf, df, td, 207, <<Call("editFileMetadata", url, FALSE)>>)


\* Whether unlink of the path throws: the handlers also unlink paths the backend
\* does not hold, and what the SDK does then is its choice (missingThrows).
UnlinkThrows(its, p, missingThrows) == missingThrows /\ FsStat(its, p).type = "none"

\* The choices the SDK has when a request unlinks the path.
UnlinkChoices(its, p) == IF FsStat(its, p).type = "none" THEN BOOLEAN ELSE {FALSE}

\* Move.handle and Copy.handle, source virtual or disk-tier, Overwrite: T and the
\* destination present: remove the destination.
PurgeDestination(its, td, destinationResource, missingThrows) ==
    LET hasFile == destinationResource.tempDiskId # NoId
        unlinks == ~destinationResource.isVirtual
    IN  [td     |-> IF hasFile THEN [td EXCEPT ![destinationResource.tempDiskId] = NoFile] ELSE td,
         threw  |-> unlinks /\ UnlinkThrows(its, destinationResource.path, missingThrows),
         items  |-> IF unlinks /\ ~UnlinkThrows(its, destinationResource.path, missingThrows)
                    THEN FsUnlink(its, destinationResource.path) ELSE its,
         calls  |-> (IF hasFile THEN <<Call("fs.rm", destinationResource.path, FALSE)>> ELSE <<>>)
                    \o (IF unlinks THEN <<Call("unlink", destinationResource.path, TRUE)>> ELSE <<>>)]

\* A check that lets every destination be replaced.
refusesDestinationNever(overwrite, destinationResource) == FALSE

\* Move.handle and Copy.handle: without Overwrite: T a destination that
\* resolves is refused.
refusesDestination(overwrite, destinationResource) ==
    ~overwrite /\ destinationResource.type # "none"

\* Move.handle
Move_handle(its, vf, df, td, url, destination, overwrite, missingThrows) ==
    LET resource            == urlToResource(its, vf, df, url)
        destinationResource == pathToResource(its, vf, df, removeLastSlash(destination))
        present             == destinationResource.type # "none"
        purged              == PurgeDestination(its, td, destinationResource, missingThrows)
        moved               == [resource EXCEPT !.path = destination]
        destinationTempDiskFileId == pathToTempDiskFileId(destination, DefaultUser)
        unlinkCall          == <<unlinkToTrash(destinationResource.path)>>
        renameCall          == <<Call("rename", resource.path, FALSE)>>
    IN  IF resource.type = "none" THEN Reply(its, vf, df, td, 404, <<>>)
        ELSE IF resource.path = destination THEN Reply(its, vf, df, td, 201, <<>>)
        ELSE IF refusesDestination(overwrite, destinationResource) THEN
            Reply(its, vf, df, td, 403, <<>>)
        ELSE IF resource.isVirtual THEN
            IF overwrite /\ present THEN
                IF purged.threw THEN Reply(its, vf, df, purged.td, 500, purged.calls)
                ELSE Reply(purged.items,
                           [vf EXCEPT ![destination] = moved, ![resource.path] = NoResource],
                           df, purged.td, 204, purged.calls)
            ELSE Reply(its, [vf EXCEPT ![destination] = moved, ![resource.path] = NoResource],
                       df, td, 201, <<>>)
        ELSE IF resource.tempDiskId # NoId THEN
            IF overwrite /\ present THEN
                IF purged.threw \/ ~purged.td[resource.tempDiskId].exists THEN
                    Reply(IF purged.threw THEN its ELSE purged.items, vf, df, purged.td, 500,
                          purged.calls)
                ELSE Reply(purged.items, vf,
                           [df EXCEPT ![destination] =
                                          [moved EXCEPT !.tempDiskId = destinationTempDiskFileId],
                                      ![resource.path] = NoResource],
                           [purged.td EXCEPT ![destinationTempDiskFileId] = purged.td[resource.tempDiskId],
                                             ![resource.tempDiskId] = NoFile],
                           204, purged.calls \o <<Call("fs.rename", resource.path, FALSE)>>)
            ELSE IF ~td[resource.tempDiskId].exists THEN Reply(its, vf, df, td, 500, <<>>)
            ELSE Reply(its, vf,
                       [df EXCEPT ![destination] =
                                      [moved EXCEPT !.tempDiskId = destinationTempDiskFileId],
                                  ![resource.path] = NoResource],
                       [td EXCEPT ![destinationTempDiskFileId] = td[resource.tempDiskId],
                                  ![resource.tempDiskId] = NoFile],
                       201, <<Call("fs.rename", resource.path, FALSE)>>)
        ELSE IF overwrite /\ present THEN
            IF UnlinkThrows(its, destinationResource.path, missingThrows) THEN
                Reply(its, vf, df, td, 500, unlinkCall)
            ELSE IF ~CanRename(FsUnlink(its, destinationResource.path), resource.path, destination) THEN
                Reply(FsUnlink(its, destinationResource.path), vf, df, td, 500,
                      unlinkCall \o renameCall)
            ELSE Reply(FsRename(FsUnlink(its, destinationResource.path), resource.path, destination),
                       vf, df, td, 204, unlinkCall \o renameCall)
        ELSE IF ~CanRename(its, resource.path, destination) THEN
            Reply(its, vf, df, td, 500, renameCall)
        ELSE Reply(FsRename(its, resource.path, destination), vf, df, td, 201, renameCall)

\* Copy.handle
Copy_handle(its, vf, df, td, url, destination, overwrite, missingThrows) ==
    LET resource            == urlToResource(its, vf, df, url)
        destinationResource == pathToResource(its, vf, df, removeLastSlash(destination))
        present             == destinationResource.type # "none"
        purged              == PurgeDestination(its, td, destinationResource, missingThrows)
        copied              == [resource EXCEPT !.path = destination]
        destinationTempDiskFileId == pathToTempDiskFileId(destination, DefaultUser)
        unlinkCall          == <<unlinkToTrash(destinationResource.path)>>
        cpCall              == <<Call("cp", resource.path, FALSE)>>
    IN  IF resource.type = "none" THEN Reply(its, vf, df, td, 404, <<>>)
        ELSE IF resource.path = destination THEN Reply(its, vf, df, td, 201, <<>>)
        ELSE IF refusesDestination(overwrite, destinationResource) THEN
            Reply(its, vf, df, td, 403, <<>>)
        ELSE IF resource.isVirtual THEN
            IF overwrite /\ present THEN
                IF purged.threw THEN Reply(its, vf, df, purged.td, 500, purged.calls)
                ELSE Reply(purged.items, [vf EXCEPT ![destination] = copied], df, purged.td,
                           204, purged.calls)
            ELSE Reply(its, [vf EXCEPT ![destination] = copied], df, td, 201, <<>>)
        ELSE IF resource.tempDiskId # NoId THEN
            IF overwrite /\ present THEN
                IF purged.threw \/ ~purged.td[resource.tempDiskId].exists THEN
                    Reply(IF purged.threw THEN its ELSE purged.items, vf, df, purged.td, 500,
                          purged.calls)
                ELSE Reply(purged.items, vf,
                           [df EXCEPT ![destination] =
                                          [copied EXCEPT !.tempDiskId = destinationTempDiskFileId]],
                           [purged.td EXCEPT ![destinationTempDiskFileId] = purged.td[resource.tempDiskId]],
                           204, purged.calls \o <<Call("fs.copy", resource.path, FALSE)>>)
            ELSE IF ~td[resource.tempDiskId].exists THEN Reply(its, vf, df, td, 500, <<>>)
            ELSE Reply(its, vf,
                       [df EXCEPT ![destination] =
                                      [copied EXCEPT !.tempDiskId = destinationTempDiskFileId]],
                       [td EXCEPT ![destinationTempDiskFileId] = td[resource.tempDiskId]],
                       201, <<Call("fs.copy", resource.path, FALSE)>>)
        ELSE IF overwrite /\ present THEN
            IF UnlinkThrows(its, destinationResource.path, missingThrows) THEN
                Reply(its, vf, df, td, 500, unlinkCall)
            ELSE IF ~CanRename(FsUnlink(its, destinationResource.path), resource.path, destination) THEN
                Reply(FsUnlink(its, destinationResource.path), vf, df, td, 500,
                      unlinkCall \o cpCall)
            ELSE Reply(FsCp(FsUnlink(its, destinationResource.path), resource.path, destination),
                       vf, df, td, 204, unlinkCall \o cpCall)
        ELSE IF ~CanRename(its, resource.path, destination) THEN
            Reply(its, vf, df, td, 500, cpCall)
        ELSE Reply(FsCp(its, resource.path, destination), vf, df, td, 201, cpCall)


(***************************************************************************)
(* The authenticator                                                       *)
(*                                                                         *)
(* A string is a sequence of tokens.  A token is one character, except     *)
(* "password=", "&twoFactorAuthentication=" and "123456", which stand for  *)
(* the characters they spell.                                              *)
(***************************************************************************)

Colon == ":"

PasswordPrefix == "password="

TwoFactorSeparator == "&twoFactorAuthentication="

\* The usernames a client presents.
Usernames == {<<"u">>, <<"v">>, <<"e", "@", "x">>, <<"f", "@", "x">>}

\* The passwords a client presents.
Passwords ==
    {<<>>, <<"p">>, <<"q">>, <<"p", Colon, "q">>,
     <<PasswordPrefix, "p">>, <<PasswordPrefix, "q">>,
     <<PasswordPrefix, "p", TwoFactorSeparator, "123456">>,
     <<PasswordPrefix, "p", TwoFactorSeparator, "1">>}

\* The passwords an account of the backend has over time.
AccountPasswords == {<<"p">>, <<"q">>}

\* The passwords a single-tenant server is configured with.
ConfiguredPasswords == {<<"p">>, <<"p", Colon, "q">>}

\* The accounts of the backend when the server starts: the password, and the
\* two-factor code the backend expects (none when two-factor is off).
Accounts ==
    [e \in {<<"e", "@", "x">>, <<"f", "@", "x">>} |->
        IF e = <<"e", "@", "x">>
        THEN [password |-> <<"p">>, twoFactorCode |-> <<"123456">>]
        ELSE [password |-> <<"p">>, twoFactorCode |-> <<>>]]

\* The number of characters of a token.
Width(token) ==
    CASE token = PasswordPrefix -> 9
      [] token = TwoFactorSeparator -> 25
      [] token = "123456" -> 6
      [] OTHER -> 1

\* String.prototype.length
RECURSIVE StrLen(_)
StrLen(s) == IF s = <<>> THEN 0 ELSE Width(Head(s)) + StrLen(Tail(s))

\* String.prototype.startsWith
StartsWith(s, token) == s # <<>> /\ Head(s) = token

\* String.prototype.includes
Includes(s, token) == \E i \in 1..Len(s) : s[i] = token

\* String.prototype.slice(n)
RECURSIVE Slice(_, _)
Slice(s, n) == IF n <= 0 \/ s = <<>> THEN s ELSE Slice(Tail(s), n - Width(Head(s)))

\* String.prototype.split: the pieces between the separators, in order.
RECURSIVE Split(_, _)
Split(s, sep) ==
    IF ~Includes(s, sep) THEN <<s>>
    ELSE LET i == CHOOSE k \in 1..Len(s) : s[k] = sep /\ \A j \in 1..(k - 1) : s[j] # sep
         IN  <<SubSeq(s, 1, i - 1)>> \o Split(SubSeq(s, i + 1, Len(s)), sep)

\* A destructured array element: undefined reads as the empty string.
Piece(pieces, i) == IF i <= Len(pieces) THEN pieces[i] ELSE <<>>

\* The user-pass a Basic client sends for a username and a password.
Credentials(username, password) == username \o <<Colon>> \o password

NoHeader == [scheme |-> "none", credentials |-> <<>>]

\* An Authorization header, by its scheme and its decoded credentials.
BasicHeader(credentials) == [scheme |-> "Basic", credentials |-> credentials]

\* crypto.createHash("md5").update(x).digest("hex"): the digest, taken as
\* determined by its input and telling two inputs apart.
Md5(x) == <<"md5", x>>

\* A request with a Digest Authorization header, by its method and the
\* parameters parseDigestAuthHeader reads out of the header; a parameter the
\* header lacks reads as the empty string.
DigestRequest(method, username, response) ==
    [scheme |-> "Digest", credentials |-> <<>>, method |-> method,
     params |-> [username |-> username, uri |-> <<"t">>, nonce |-> "n", nc |-> "00000001",
                 cnonce |-> "c", qop |-> "auth", response |-> response]]

\* The response of a Digest request for a username and a password, over
\* REALM and the parameters of the header, as Auth.digest recomputes it.
DigestResponse(username, password, method, params) ==
    Md5(<<Md5(<<username, "Default realm", password>>), params.nonce, params.nc,
          params.cnonce, params.qop, Md5(<<method, params.uri>>)>>)

\* A Digest header without parameters.
DigestHeader == DigestRequest("GET", <<>>, <<>>)

LoginCall(email, password, twoFactorCode) ==
    [email |-> email, password |-> password, twoFactorCode |-> twoFactorCode]

\* sdk.login: the backend accepts the account's password, with the code it
\* expects when two-factor is on.
SdkLogin(email, password, twoFactorCode) ==
    /\ email \in DOMAIN accounts
    /\ accounts[email].password = password
    /\ accounts[email].twoFactorCode # <<>> => twoFactorCode = accounts[email].twoFactorCode

\* What the authenticator did with a request: whether it let it pass, the
\* username it bound to it, and the logins it made at the backend.
AuthOut(us, authed, passed, username, logins) ==
    [users |-> us, authed |-> authed, passed |-> passed, username |-> username,
     logins |-> logins]

Unauthorized(us, authed) == AuthOut(us, authed, FALSE, <<>>, <<>>)

\* Auth.filenAuth
Auth_filenAuth(us, authed, username, password) ==
    LET passwordEx == Split(password, TwoFactorSeparator)
        twoFactor  == Piece(passwordEx, 2)
        parsedTwoFactorCode ==
            IF StartsWith(password, PasswordPrefix) /\ Len(passwordEx) >= 2
               /\ twoFactor # <<>> /\ StrLen(twoFactor) >= 6
            THEN twoFactor ELSE <<>>
        parsedPassword ==
            IF ~StartsWith(password, PasswordPrefix) THEN password
            ELSE IF Len(passwordEx) >= 2 THEN <<>>
            ELSE Slice(passwordEx[1], 9)
        login == LoginCall(username, parsedPassword, parsedTwoFactorCode)
    IN  IF authed[username] # <<>> /\ authed[username] = password THEN
            AuthOut(us, authed, TRUE, username, <<>>)
        ELSE IF StartsWith(password, PasswordPrefix)
                /\ (passwordEx[1] = <<>> \/ ~StartsWith(passwordEx[1], PasswordPrefix)) THEN
            Unauthorized(us, authed)
        ELSE IF parsedPassword = <<>> THEN Unauthorized(us, authed)
        ELSE IF ~SdkLogin(username, parsedPassword, parsedTwoFactorCode) THEN
            AuthOut([us EXCEPT ![username] = <<>>], authed, FALSE, <<>>, <<login>>)
        ELSE
            AuthOut([us EXCEPT ![username] = parsedPassword],
                    [authed EXCEPT ![username] = password], TRUE, username, <<login>>)

\* The socket listener of Auth.filenAuth that forgets nothing.
Auth_passwordChangedKeepingAuthed(us, authed, username) ==
    AuthOut(us, authed, FALSE, <<>>, <<>>)

\* The socket listener Auth.filenAuth registers after a login, on a
\* passwordChanged event: the user's session and cached password are deleted.
Auth_passwordChanged(us, authed, username) ==
    AuthOut([us EXCEPT ![username] = <<>>], [authed EXCEPT ![username] = <<>>],
            FALSE, <<>>, <<>>)

\* Auth.defaultAuth
Auth_defaultAuth(us, authed, name, pass, username, password) ==
    IF username = name /\ password = pass
    THEN AuthOut(us, authed, TRUE, name, <<>>)
    ELSE Unauthorized(us, authed)

\* Auth.basic
Auth_basic(proxy, name, pass, us, authed, header) ==
    LET pieces   == Split(header.credentials, Colon)
        username == Piece(pieces, 1)
        password == Piece(pieces, 2)
    IN  IF header.scheme # "Basic" THEN Unauthorized(us, authed)
        ELSE IF header.credentials = <<>> THEN Unauthorized(us, authed)
        ELSE IF username = <<>> \/ password = <<>> THEN Unauthorized(us, authed)
        ELSE IF Includes(username, "@") /\ StartsWith(password, PasswordPrefix) /\ proxy THEN
            Auth_filenAuth(us, authed, username, password)
        ELSE Auth_defaultAuth(us, authed, name, pass, username, password)

\* Auth.digest
Auth_digest(name, pass, us, authed, header) ==
    LET authParams == header.params
        username   == authParams.username
    IN  IF header.scheme # "Digest" THEN Unauthorized(us, authed)
        ELSE IF username = <<>> \/ authParams.response = <<>> THEN Unauthorized(us, authed)
        ELSE IF DigestResponse(username, pass, header.method, authParams)
                # authParams.response THEN
            Unauthorized(us, authed)
        ELSE AuthOut(us, authed, TRUE, name, <<>>)

\* Auth.handle
Auth_handle(proxy, mode, name, pass, us, authed, header) ==
    IF header = NoHeader THEN Unauthorized(us, authed)
    ELSE IF mode = "digest" THEN Auth_digest(name, pass, us, authed, header)
    ELSE Auth_basic(proxy, name, pass, us, authed, header)

NoCredentials == [username |-> <<>>, password |-> <<>>]

PasswordChangedEvent == [scheme |-> "passwordChanged", credentials |-> <<>>]

\* The record of a request the authenticator saw: the header, the username
\* and the password the client meant, whether the authed cache held them when
\* the request arrived, whether a passwordChanged event had just discarded
\* them, and what the authenticator did: the username it bound, the logins it
\* made, and either the call of next(), which hands the request to the verb
\* handlers, or the 401 response with its WWW-Authenticate header, the
\* Content-Length it sets (none) and the body it ends the response with.
Authenticated(header, presented, wasAuthed, afterChange, out) ==
    [header |-> header, presented |-> presented, wasAuthed |-> wasAuthed,
     afterChange |-> afterChange,
     passed |-> out.passed, username |-> out.username, logins |-> out.logins,
     next |-> out.passed,
     status |-> IF out.passed THEN 0 ELSE 401,
     wwwAuthenticate |-> ~out.passed,
     contentLength |-> <<>>,
     body |-> IF out.passed THEN <<>> ELSE <<"Unauthorized">>]

\* The record before any request: nothing was answered.
NoAuthentication ==
    [header |-> [scheme |-> "no request", credentials |-> <<>>],
     presented |-> NoCredentials,
     wasAuthed |-> FALSE, afterChange |-> FALSE,
     passed |-> FALSE, username |-> <<>>, logins |-> <<>>,
     next |-> FALSE, status |-> 0, wwwAuthenticate |-> FALSE,
     contentLength |-> <<>>, body |-> <<>>]

\* The record of a passwordChanged event: the username and the raw password
\* the authed cache held for it.
Discarded(username, password, out) ==
    [header |-> PasswordChangedEvent,
     presented |-> [username |-> username, password |-> password],
     wasAuthed |-> TRUE, afterChange |-> FALSE,
     passed |-> FALSE, username |-> <<>>, logins |-> <<>>,
     next |-> FALSE, status |-> 0, wwwAuthenticate |-> FALSE,
     contentLength |-> <<>>, body |-> <<>>]

(***************************************************************************)
(* Byte ranges                                                             *)
(*                                                                         *)
(* A Range header value is a string of the tokens "bytes", "=", "-", the   *)
(* digits and other characters.                                            *)
(***************************************************************************)

Digit ==
    "0" :> 0 @@ "1" :> 1 @@ "2" :> 2 @@ "3" :> 3 @@ "4" :> 4 @@
    "5" :> 5 @@ "6" :> 6 @@ "7" :> 7 @@ "8" :> 8 @@ "9" :> 9

\* Number.prototype.toString of a natural number.
RECURSIVE Decimal(_)
Decimal(n) ==
    LET digit == CHOOSE c \in DOMAIN Digit : Digit[c] = n % 10
    IN  IF n < 10 THEN <<digit>> ELSE Decimal(n \div 10) \o <<digit>>

NaN == [nan |-> TRUE, value |-> 0]

isNaN(x) == x.nan

\* parseInt(s, 10) of a string without sign or blanks: the number its leading
\* digits spell, NaN when it has none.
RECURSIVE ParseDigits(_, _)
ParseDigits(s, n) ==
    IF s = <<>> \/ Head(s) \notin DOMAIN Digit THEN n
    ELSE ParseDigits(Tail(s), 10 * n + Digit[Head(s)])

parseInt(s) ==
    IF s = <<>> \/ Head(s) \notin DOMAIN Digit THEN NaN
    ELSE [nan |-> FALSE, value |-> ParseDigits(s, 0)]

NoByteRange == [ok |-> FALSE, start |-> 0, end |-> 0]

\* parseByteRange that lets the range end one byte after the last.
parseByteRangeEndAfterLast(range, totalLength) ==
    LET pieces     == Split(range, "=")
        unit       == Piece(pieces, 1)
        rangeValue == Piece(pieces, 2)
        ends       == Split(rangeValue, "-")
        startStr   == Piece(ends, 1)
        endStr     == Piece(ends, 2)
        start      == parseInt(startStr)
        end        == IF endStr # <<>> THEN parseInt(endStr)
                      ELSE [nan |-> FALSE, value |-> totalLength - 1]
    IN  IF unit # <<"bytes">> \/ rangeValue = <<>> THEN NoByteRange
        ELSE IF startStr = <<>> THEN NoByteRange
        ELSE IF isNaN(start) \/ isNaN(end) THEN NoByteRange
        ELSE IF start.value < 0 \/ end.value > totalLength \/ start.value > end.value
             THEN NoByteRange
        ELSE [ok |-> TRUE, start |-> start.value, end |-> end.value]

\* parseByteRange
parseByteRange(range, totalLength) ==
    LET pieces     == Split(range, "=")
        unit       == Piece(pieces, 1)
        rangeValue == Piece(pieces, 2)
        ends       == Split(rangeValue, "-")
        startStr   == Piece(ends, 1)
        endStr     == Piece(ends, 2)
        start      == parseInt(startStr)
        end        == IF endStr # <<>> THEN parseInt(endStr)
                      ELSE [nan |-> FALSE, value |-> totalLength - 1]
    IN  IF unit # <<"bytes">> \/ rangeValue = <<>> THEN NoByteRange
        ELSE IF startStr = <<>> THEN NoByteRange
        ELSE IF isNaN(start) \/ isNaN(end) THEN NoByteRange
        ELSE IF start.value < 0 \/ end.value >= totalLength \/ start.value > end.value
             THEN NoByteRange
        ELSE [ok |-> TRUE, start |-> start.value, end |-> end.value]

\* fs.createReadStream and downloadFileToReadableStream with {start, end}:
\* the bytes from start to end, both counted from 0 and included, as far as
\* the data goes.
ReadBytes(data, start, end) ==
    LET stop == IF end < Len(data) - 1 THEN end ELSE Len(data) - 1
    IN  IF stop < start THEN <<>> ELSE [i \in 1..(stop - start + 1) |-> data[start + i]]

\* The Content-Range and Content-Length headers of a response, each a
\* sequence that is empty when the header is not set.
Headers(contentRange, contentLength) ==
    [contentRange |-> contentRange, contentLength |-> contentLength]

NoHeaders == Headers(<<>>, <<>>)

\* Get.handle, with the Range header of the request (empty when it has none)
Get_handleRange(its, vf, df, td, url, range) ==
    LET resource    == urlToResource(its, vf, df, url)
        totalLength == resource.size
        parsedRange == parseByteRange(range, totalLength)
        start       == IF range # <<>> THEN parsedRange.start ELSE 0
        end         == IF range # <<>> THEN parsedRange.end ELSE totalLength - 1
        status      == IF range # <<>> THEN 206 ELSE 200
        headers     == IF range # <<>>
                       THEN Headers(<<start, end, totalLength>>, <<end - start + 1>>)
                       ELSE Headers(<<>>, <<resource.size>>)
    IN  IF resource.type = "none" \/ resource.type = "directory" THEN
            Reply(its, vf, df, td, 404, <<>>) @@ NoHeaders
        ELSE IF resource.isVirtual THEN
            Reply(its, vf, df, td, 200, <<>>) @@ Headers(<<>>, <<0>>)
        ELSE IF range # <<>> /\ ~parsedRange.ok THEN
            Reply(its, vf, df, td, 400, <<>>) @@ NoHeaders
        ELSE IF resource.tempDiskId # NoId THEN
            IF td[resource.tempDiskId].exists
            THEN Out(its, vf, df, td, status, <<>>,
                     ReadBytes(td[resource.tempDiskId].data, start, end), {}) @@ headers
            ELSE Reply(its, vf, df, td, 500, <<>>) @@ NoHeaders
        ELSE Out(its, vf, df, td, status, <<Call("downloadFileToReadableStream", url, FALSE)>>,
                 ReadBytes(FsStat(its, resource.path).data, start, end), {}) @@ headers

\* Head.handle, with the Range header of the request (empty when it has none)
Head_handleRange(its, vf, df, td, url, range) ==
    LET resource    == urlToResource(its, vf, df, url)
        totalLength == resource.size
        parsedRange == parseByteRange(range, totalLength)
    IN  IF resource.type = "none" THEN Reply(its, vf, df, td, 404, <<>>) @@ NoHeaders
        ELSE IF resource.type = "directory" THEN Reply(its, vf, df, td, 403, <<>>) @@ NoHeaders
        ELSE IF range # <<>> /\ ~parsedRange.ok THEN
            Reply(its, vf, df, td, 400, <<>>) @@ NoHeaders
        ELSE IF range # <<>> THEN
            Reply(its, vf, df, td, 206, <<>>)
                @@ Headers(<<parsedRange.start, parsedRange.end, totalLength>>,
                           <<parsedRange.end - parsedRange.start + 1>>)
        ELSE Reply(its, vf, df, td, 200, <<>>) @@ Headers(<<>>, <<resource.size>>)

\* The Range header a client sends for the bytes a to b: bytes=a-b
RangeHeader(a, b) == <<"bytes", "=">> \o Decimal(a) \o <<"-">> \o Decimal(b)

\* The Range header a client sends for the bytes from a on: bytes=a-
OpenRangeHeader(a) == <<"bytes", "=">> \o Decimal(a) \o <<"-">>

\* The ranges a client asks for: the header, and the first and the last byte
\* it means (none when the header is not of the form bytes=a-b or bytes=a-).
Asked(value, form, a, b) == [value |-> value, form |-> form, a |-> a, b |-> b]

Ranges ==
    {Asked(RangeHeader(a, b), "closed", a, b) : a \in 0..MaxBody, b \in 0..MaxBody}
    \cup {Asked(OpenRangeHeader(a), "open", a, 0) : a \in 0..MaxBody}
    \cup {Asked(value, "other", 0, 0) :
             value \in {<<>>, <<"bytes">>, <<"bytes", "=", "-", "1">>,
                        <<"bytes", "=", "x", "-", "1">>, <<"bytes", "=", "0", "-", "x">>,
                        <<"i", "=", "0", "-", "0">>}}

(***************************************************************************)
(* The server serving one request after another                            *)
(***************************************************************************)

NoRequest == Request("none", Root, Root, FALSE, <<>>)

\* The tier a path resolves to: "virtual", "disk", or what the backend's stat says.
TierOf(its, vf, df, p) ==
    LET resource == urlToResource(its, vf, df, p)
    IN  IF resource.isVirtual THEN "virtual"
        ELSE IF resource.tempDiskId # NoId THEN "disk"
        ELSE resource.type

\* The record of a served request: the request, the tiers its path and its destination
\* resolved to when it arrived, and the response.
Served(req, was, dstWas, out) ==
    [req |-> req, was |-> was, dstWas |-> dstWas, status |-> out.status,
     calls |-> out.calls, data |-> out.data, names |-> out.names]

Apply(req, out) ==
    /\ items' = out.items
    /\ virtualFiles' = out.vf
    /\ tempDiskFiles' = out.df
    /\ tempDisk' = out.td
    /\ last' = Served(req, TierOf(items, virtualFiles, tempDiskFiles, req.path),
                      TierOf(items, virtualFiles, tempDiskFiles, removeLastSlash(req.dest)), out)

\* WebDAVServer.start: the scratch directory is emptied, the maps are empty.
NamespaceInit ==
    /\ items = [x \in ItemPaths |-> IF x = Root THEN DirItem ELSE NoItem]
    /\ virtualFiles = [x \in FilePaths |-> NoResource]
    /\ tempDiskFiles = [x \in FilePaths |-> NoResource]
    /\ tempDisk = [i \in DiskIds |-> NoFile]
    /\ last = Served(NoRequest, "none", "none",
                     Reply(items, virtualFiles, tempDiskFiles, tempDisk, 0, <<>>))

\* The requests that are inside Auth.filenAuth at the same time.
MaxRequests == 3

Requests == 1..MaxRequests

\* The usernames and the passwords those requests carry.
ProxyUsernames == {<<"e", "@", "x">>, <<"f", "@", "x">>}

ProxyPasswords == {<<PasswordPrefix, "p">>, <<PasswordPrefix, "q">>}

\* new Semaphore(1): nobody holds it and nobody waits.
Semaphore == [counter |-> 0, waiting |-> <<>>]

\* A semaphore whose acquire always grants.
Semaphore_acquireAlways(sem, r) ==
    [sem |-> [sem EXCEPT !.counter = @ + 1], granted |-> TRUE]

\* Semaphore.acquire, called by request r: granted at once while the counter
\* is below the maximum of 1, queued otherwise.
Semaphore_acquire(sem, r) ==
    IF sem.counter < 1
    THEN [sem |-> [sem EXCEPT !.counter = @ + 1], granted |-> TRUE]
    ELSE [sem |-> [sem EXCEPT !.waiting = Append(@, r)], granted |-> FALSE]

\* Semaphore.release and take: the counter goes down, and the first waiting
\* request, if any, is granted the semaphore.
Semaphore_release(sem) ==
    IF Len(sem.waiting) > 0 /\ sem.counter - 1 < 1
    THEN [sem |-> [sem EXCEPT !.waiting = Tail(@)], resumed |-> <<Head(sem.waiting)>>]
    ELSE [sem |-> [sem EXCEPT !.counter = @ - 1], resumed |-> <<>>]

\* A request that has not arrived. A request inside Auth.filenAuth is at
\* "waiting" (in the queue of the mutex), "acquired" (it holds the mutex),
\* "login" (sdk.login is in flight), "bound" or "rejected".
NoLogin ==
    [pc |-> "idle", username |-> <<>>, password |-> <<>>, login |-> <<>>, fromCache |-> FALSE]

\* The two clients whose PUTs of one path overlap, the path, and the bodies
\* a client sends: no two clients send the same body.
Writers == {1, 2}

WrittenPath == <<"d", "a">>

WriterBodies(w) == {<<w>>, <<w, w>>}

\* A PUT that has not arrived. A PUT inside Put.handle is at "uploading"
\* (uploadLocalFileStream is in flight), "uploaded", "removed" (after
\* _removeItem) or "done" (after _addItem and the 201).
NoPut == [pc |-> "idle", body |-> <<>>]

\* The users of the proxy that requests are bound to.
Tenants == {Alice, Mallory}

\* The paths the users of the proxy name, and the bodies they send.
TenantPaths == {<<"t">>}

TenantBodies == {Stream(0), <<1>>, <<2>>}

\* A user nothing was stored for: an empty backend account, no virtual and no
\* scratch entry.
NoTenant ==
    [items |-> [x \in TenantPaths \cup {Root} |-> IF x = Root THEN DirItem ELSE NoItem],
     vf |-> [x \in TenantPaths |-> NoResource],
     df |-> [x \in TenantPaths |-> NoResource]]

\* The PROPFIND requests of one user that may overlap.
Propfinds == {1, 2}

\* new NodeCache(): nothing is cached. A cached value is a quota, at least 1.
NodeCache == [has |-> FALSE, value |-> 0, expires |-> 0]

\* The quota cache of the user when the server starts: the clock in seconds,
\* the user's cache, the quota the backend would report, each PROPFIND's
\* position (idle, or inside the backend statfs), the backend statfs calls
\* made so far and the quota of the latest response.
NoStatfs ==
    [now |-> 0, cache |-> NodeCache, used |-> 1,
     pf |-> [r \in Propfinds |-> "idle"],
     calls |-> {}, report |-> [at |-> 0, used |-> 0]]

\* The worker processes of a WebDAVServerCluster with two threads.
Workers == {1, 2}

\* new WebDAVServer() in a worker process: the virtualFiles and tempDiskFiles
\* of the user are maps in the memory of that process, empty at first.
WorkerServer ==
    [vf |-> [x \in FilePaths |-> NoResource], df |-> [x \in FilePaths |-> NoResource]]

\* The servers of the workers, and the worker that served the latest request.
NoCluster == [server |-> [w \in Workers |-> WorkerServer], served |-> 1]

\* new WebDAVServerCluster(): the master before start(). pc is the position of
\* start() (new, starting, started), live the worker processes that run, sent
\* those that have sent "ready", workers the keys of this.workers, ready the
\* workers marked ready, workersReady the counter of startCluster, timers the
\* pending one-second waits of the exit handler, forked the workers forked so
\* far and exits the worker exits so far.
NoMaster ==
    [pc |-> "new", live |-> {}, sent |-> {}, workers |-> {}, ready |-> {},
     workersReady |-> 0, timers |-> 0, stopSpawning |-> FALSE, forked |-> 0, exits |-> 0]

\* The files of Certs.dirPath: the certificate and the key, each named by the
\* second it was generated at, and the stored expiry; -1 is a missing file.
NoCertFiles == [cert |-> -1, privateKey |-> -1, expiry |-> -1]

\* The configuration directory before any Certs.get: the clock (Date.now(), in
\* seconds), the files, and of the latest Certs.get the files it found and
\* what it returned (pc is "got" right after a Certs.get).
NoCerts ==
    [now |-> 0, files |-> NoCertFiles, pc |-> "idle", found |-> NoCertFiles,
     got |-> [cert |-> -1, privateKey |-> -1]]

\* WebDAVServer.constructor: with a user the server is single-tenant and the
\* user is bound; without one it is a proxy and nobody is bound.
Configured(proxy, mode, name, pass) ==
    /\ proxyMode = proxy
    /\ authMode = mode
    /\ defaultUsername = name
    /\ defaultPassword = pass
    /\ users = [u \in Usernames |-> IF ~proxy /\ u = name THEN pass ELSE <<>>]
    /\ authedFilenUsers = [u \in Usernames |-> <<>>]
    /\ authLast = NoAuthentication
    /\ accounts = Accounts
    /\ tenants = [u \in Tenants |-> NoTenant]
    /\ inFlight = [req |-> [r \in Requests |-> NoLogin],
                   mutex |-> [u \in ProxyUsernames |-> Semaphore],
                   logins |-> <<>>,
                   put |-> [w \in Writers |-> NoPut],
                   uploaded |-> <<>>,
                   statfs |-> NoStatfs,
                   cluster |-> NoCluster,
                   master |-> NoMaster,
                   certs |-> NoCerts]

Init ==
    /\ NamespaceInit
    /\ Configured(FALSE, "basic", DefaultUser, <<"p">>)

PUT ==
    \E p \in FilePaths, b \in Bodies :
        /\ UNCHANGED authVars
        /\ Apply(Request("PUT", p, Root, FALSE, b),
                 Put_handle(DefaultUser, items, virtualFiles, tempDiskFiles, tempDisk, p, b))

DELETE ==
    \E p \in FilePaths \cup DirPaths :
        /\ UNCHANGED authVars
        /\ Apply(Request("DELETE", p, Root, FALSE, <<>>),
                 Delete_handle(items, virtualFiles, tempDiskFiles, tempDisk, p))

MKCOL ==
    \E p \in DirPaths :
        /\ UNCHANGED authVars
        /\ Apply(Request("MKCOL", p, Root, FALSE, <<>>),
                 Mkcol_handle(items, virtualFiles, tempDiskFiles, tempDisk, p))

GET ==
    \E p \in FilePaths \cup DirPaths :
        /\ UNCHANGED authVars
        /\ Apply(Request("GET", p, Root, FALSE, <<>>),
                 Get_handle(items, virtualFiles, tempDiskFiles, tempDisk, p))

HEAD ==
    \E p \in FilePaths \cup DirPaths :
        /\ UNCHANGED authVars
        /\ Apply(Request("HEAD", p, Root, FALSE, <<>>),
                 Head_handle(items, virtualFiles, tempDiskFiles, tempDisk, p))

PROPFIND ==
    \E p \in DirPaths \cup {Root}, depth \in {0, 1} :
        /\ UNCHANGED authVars
        /\ Apply(Request("PROPFIND", p, Root, depth = 1, <<>>),
                 Propfind_handle(items, virtualFiles, tempDiskFiles, tempDisk, p, depth))

PROPPATCH ==
    \E p \in FilePaths, valid \in BOOLEAN :
        /\ UNCHANGED authVars
        /\ Apply(Request("PROPPATCH", p, Root, valid, <<>>),
                 Proppatch_handle(items, virtualFiles, tempDiskFiles, tempDisk, p, valid))

MOVE ==
    \E p \in FilePaths, q \in FilePaths, overwrite \in BOOLEAN :
      \E missingThrows \in UnlinkChoices(items, q) :
        /\ InUniverse(items, p, q)
        /\ UNCHANGED authVars
        /\ Apply(Request("MOVE", p, q, overwrite, <<>>),
                 Move_handle(items, virtualFiles, tempDiskFiles, tempDisk, p, q, overwrite,
                             missingThrows))

COPY ==
    \E p \in FilePaths, q \in FilePaths, overwrite \in BOOLEAN :
      \E missingThrows \in UnlinkChoices(items, q) :
        /\ InUniverse(items, p, q)
        /\ UNCHANGED authVars
        /\ Apply(Request("COPY", p, q, overwrite, <<>>),
                 Copy_handle(items, virtualFiles, tempDiskFiles, tempDisk, p, q, overwrite,
                             missingThrows))

Next ==
    \/ PUT
    \/ DELETE
    \/ MKCOL
    \/ GET
    \/ HEAD
    \/ PROPFIND
    \/ PROPPATCH
    \/ MOVE
    \/ COPY

Spec == Init /\ [][Next]_vars

(***************************************************************************)
(* The server serving requests on a tree of paths                          *)
(***************************************************************************)

\* The paths of the tree: each may be a file or a directory.
TreePaths == {<<"t">>, <<"t", "a">>, <<"d">>, <<"d", "a">>}

\* The paths a MOVE or a COPY is sent for: those with a path below them.
TreeSources == {p \in TreePaths : \E q \in TreePaths : q # p /\ IsUnder(q, p)}

TreeBodies == {Stream(0), Stream(1)}

\* The Destination headers sent with a MOVE or COPY of the path: the path
\* itself, the path with a slash at its end, and the paths below it.
Destinations(p) ==
    {p, p \o <<"">>} \cup {q \in TreePaths : q # p /\ IsUnder(q, p)}

TreeInit ==
    /\ items = [x \in TreePaths \cup {Root} |-> IF x = Root THEN DirItem ELSE NoItem]
    /\ virtualFiles = [x \in TreePaths |-> NoResource]
    /\ tempDiskFiles = [x \in TreePaths |-> NoResource]
    /\ tempDisk = [i \in {pathToTempDiskFileId(x, DefaultUser) : x \in TreePaths} |-> NoFile]
    /\ last = Served(NoRequest, "none", "none",
                     Reply(items, virtualFiles, tempDiskFiles, tempDisk, 0, <<>>))
    /\ Configured(FALSE, "basic", DefaultUser, <<"p">>)

TREE_PUT ==
    \E p \in TreePaths, b \in TreeBodies :
        /\ UNCHANGED authVars
        /\ Apply(Request("PUT", p, Root, FALSE, b),
                 Put_handle(DefaultUser, items, virtualFiles, tempDiskFiles, tempDisk, p, b))

TREE_MKCOL ==
    \E p \in TreePaths :
        /\ UNCHANGED authVars
        /\ Apply(Request("MKCOL", p, Root, FALSE, <<>>),
                 Mkcol_handle(items, virtualFiles, tempDiskFiles, tempDisk, p))

\* A MKCOL whose mkdir the backend fails.
\* A PUT with a body whose upload to the backend fails.
TREE_PUT_UPLOAD_FAILS ==
    \E p \in TreePaths, onError \in BOOLEAN :
        /\ UNCHANGED authVars
        /\ Apply(Request("PUT", p, Root, FALSE, Stream(1)),
                 Put_handleUploadFails(items, virtualFiles, tempDiskFiles, tempDisk, p,
                                       Stream(1), onError))

TREE_MKCOL_THROWS ==
    \E p \in TreePaths, errorsMiddleware \in BOOLEAN :
        /\ UNCHANGED authVars
        /\ Apply(Request("MKCOL", p, Root, FALSE, <<>>),
                 Mkcol_handleMkdirThrows(items, virtualFiles, tempDiskFiles, tempDisk, p,
                                         errorsMiddleware))

\* A MOVE to one of the Destinations of the path; a Destination with a slash
\* at its end is sent without Overwrite: T.
TREE_MOVE ==
    \E p \in TreeSources, overwrite \in BOOLEAN :
      \E destination \in Destinations(p) :
        \E missingThrows \in UnlinkChoices(items, removeLastSlash(destination)) :
          /\ destination \in TreePaths \/ ~overwrite
          /\ UNCHANGED authVars
          /\ Apply(Request("MOVE", p, destination, overwrite, <<>>),
                   Move_handle(items, virtualFiles, tempDiskFiles, tempDisk, p, destination,
                               overwrite, missingThrows))

\* A COPY to one of the Destinations of the path.
TREE_COPY ==
    \E p \in TreeSources, overwrite \in BOOLEAN :
      \E destination \in Destinations(p) :
        \E missingThrows \in UnlinkChoices(items, removeLastSlash(destination)) :
          /\ destination \in TreePaths \/ ~overwrite
          /\ UNCHANGED authVars
          /\ Apply(Request("COPY", p, destination, overwrite, <<>>),
                   Copy_handle(items, virtualFiles, tempDiskFiles, tempDisk, p, destination,
                               overwrite, missingThrows))

TreeNext ==
    \/ TREE_PUT
    \/ TREE_PUT_UPLOAD_FAILS
    \/ TREE_MKCOL
    \/ TREE_MKCOL_THROWS
    \/ TREE_MOVE
    \/ TREE_COPY

TreeSpec == TreeInit /\ [][TreeNext]_vars

(***************************************************************************)
(* The server authenticating one request after another                     *)
(***************************************************************************)

AuthInit ==
    /\ NamespaceInit
    /\ \/ Configured(TRUE, "basic", <<>>, <<>>)
       \/ \E mode \in {"basic", "digest"}, pass \in ConfiguredPasswords :
              Configured(FALSE, mode, DefaultUser, pass)

Authenticate(header, presented) ==
    LET out == Auth_handle(proxyMode, authMode, defaultUsername, defaultPassword, users,
                           authedFilenUsers, header)
    IN  /\ users' = out.users
        /\ authedFilenUsers' = out.authed
        /\ authLast' = Authenticated(header, presented,
                                     /\ presented.username \in Usernames
                                     /\ presented.password # <<>>
                                     /\ authedFilenUsers[presented.username] = presented.password,
                                     /\ authLast.header = PasswordChangedEvent
                                     /\ authLast.presented = presented,
                                     out)

\* A request with Basic credentials.
AUTH ==
    \E username \in Usernames, password \in Passwords :
        /\ UNCHANGED <<proxyMode, authMode, defaultUsername, defaultPassword, accounts, nsVars,
                     inFlight, tenants>>
        /\ Authenticate(BasicHeader(Credentials(username, password)),
                        [username |-> username, password |-> password])

\* A request of a Digest client that knows a username and a password.
AUTH_DIGEST ==
    \E username \in {<<"u">>, <<"v">>}, password \in ConfiguredPasswords,
       method \in {"GET", "PUT"} :
        LET asked == DigestRequest(method, username, <<>>).params
        IN  /\ UNCHANGED <<proxyMode, authMode, defaultUsername, defaultPassword, accounts,
                           nsVars, inFlight, tenants>>
            /\ Authenticate(DigestRequest(method, username,
                                          DigestResponse(username, password, method, asked)),
                            [username |-> username, password |-> password])

\* A request without an Authorization header, or with one of another scheme.
AUTH_OTHER ==
    \E header \in {NoHeader, DigestHeader} :
        /\ UNCHANGED <<proxyMode, authMode, defaultUsername, defaultPassword, accounts, nsVars,
                     inFlight, tenants>>
        /\ Authenticate(header, NoCredentials)

\* The backend changes the password of a logged-in user and emits
\* passwordChanged on the socket of the user's session.
PASSWORD_CHANGED ==
    \E username \in DOMAIN accounts, password \in AccountPasswords :
        LET out == Auth_passwordChanged(users, authedFilenUsers, username)
        IN  /\ authedFilenUsers[username] # <<>>
            /\ password # accounts[username].password
            /\ accounts' = [accounts EXCEPT ![username].password = password]
            /\ users' = out.users
            /\ authedFilenUsers' = out.authed
            /\ virtualFiles' = [x \in DOMAIN virtualFiles |-> NoResource]
            /\ tempDiskFiles' = [x \in DOMAIN tempDiskFiles |-> NoResource]
            /\ authLast' = Discarded(username, authedFilenUsers[username], out)
            /\ UNCHANGED <<proxyMode, authMode, defaultUsername, defaultPassword, items, tempDisk,
                           last, inFlight, tenants>>

AuthNext ==
    \/ AUTH
    \/ AUTH_DIGEST
    \/ AUTH_OTHER
    \/ PASSWORD_CHANGED

AuthSpec == AuthInit /\ [][AuthNext]_vars

(***************************************************************************)
(* The server serving reads of byte ranges                                 *)
(***************************************************************************)

\* The record of a served read: as Served, with the range asked for, the size
\* of the resource and the body of a GET without Range when the request
\* arrived, and the Content-Range and Content-Length of the response.
ServedRange(req, range, out) ==
    Served(req, TierOf(items, virtualFiles, tempDiskFiles, req.path), "none", out)
    @@ [range |-> range,
        size |-> urlToResource(items, virtualFiles, tempDiskFiles, req.path).size,
        full |-> Get_handle(items, virtualFiles, tempDiskFiles, tempDisk, req.path).data,
        contentRange |-> out.contentRange,
        contentLength |-> out.contentLength]

RANGE_GET ==
    \E p \in FilePaths \cup DirPaths, range \in Ranges :
        /\ UNCHANGED <<authVars, items, virtualFiles, tempDiskFiles, tempDisk>>
        /\ last' = ServedRange(Request("GET", p, Root, FALSE, <<>>), range,
                                Get_handleRange(items, virtualFiles, tempDiskFiles, tempDisk,
                                                p, range.value))

RANGE_HEAD ==
    \E p \in FilePaths \cup DirPaths, range \in Ranges :
        /\ UNCHANGED <<authVars, items, virtualFiles, tempDiskFiles, tempDisk>>
        /\ last' = ServedRange(Request("HEAD", p, Root, FALSE, <<>>), range,
                                Head_handleRange(items, virtualFiles, tempDiskFiles, tempDisk,
                                                 p, range.value))

(***************************************************************************)
(* A proxy with two users: the maps and the backend account are the        *)
(* user's, the scratch directory is the server's                           *)
(***************************************************************************)

ProxyInit ==
    /\ items = [x \in ItemPaths |-> IF x = Root THEN DirItem ELSE NoItem]
    /\ virtualFiles = [x \in FilePaths |-> NoResource]
    /\ tempDiskFiles = [x \in FilePaths |-> NoResource]
    /\ tempDisk = [i \in {pathToTempDiskFileId(x, u) : x \in TenantPaths, u \in Tenants}
                      |-> NoFile]
    /\ last = Served(NoRequest, "none", "none",
                     Reply(items, virtualFiles, tempDiskFiles, tempDisk, 0, <<>>))
              @@ [username |-> <<>>]
    /\ Configured(TRUE, "basic", <<>>, <<>>)

\* A handler has served the request of a user: getVirtualFilesForUser,
\* getTempDiskFilesForUser and getSDKForUser of req.username.
Bound(username, req, out) ==
    /\ tenants' = [tenants EXCEPT ![username] =
                       [items |-> out.items, vf |-> out.vf, df |-> out.df]]
    /\ tempDisk' = out.td
    /\ last' = Served(req, TierOf(tenants[username].items, tenants[username].vf,
                                  tenants[username].df, req.path), "none", out)
               @@ [username |-> username]

TENANT_PUT ==
    \E u \in Tenants, p \in TenantPaths, b \in TenantBodies :
        /\ UNCHANGED <<sessionVars, items, virtualFiles, tempDiskFiles>>
        /\ Bound(u, Request("PUT", p, Root, FALSE, b),
                 Put_handle(u, tenants[u].items, tenants[u].vf, tenants[u].df, tempDisk, p, b))

TENANT_GET ==
    \E u \in Tenants, p \in TenantPaths :
        /\ UNCHANGED <<sessionVars, items, virtualFiles, tempDiskFiles>>
        /\ Bound(u, Request("GET", p, Root, FALSE, <<>>),
                 Get_handle(tenants[u].items, tenants[u].vf, tenants[u].df, tempDisk, p))

TENANT_DELETE ==
    \E u \in Tenants, p \in TenantPaths :
        /\ UNCHANGED <<sessionVars, items, virtualFiles, tempDiskFiles>>
        /\ Bound(u, Request("DELETE", p, Root, FALSE, <<>>),
                 Delete_handle(tenants[u].items, tenants[u].vf, tenants[u].df, tempDisk, p))

ProxyNext ==
    \/ TENANT_PUT
    \/ TENANT_GET
    \/ TENANT_DELETE

ProxySpec == ProxyInit /\ [][ProxyNext]_vars

(***************************************************************************)
(* Requests inside Auth.filenAuth at the same time                         *)
(***************************************************************************)

\* The finally block of Auth.filenAuth: the mutex of the username is released
\* and the request at the head of its queue goes on.
Released(req, username) ==
    LET out == Semaphore_release(inFlight.mutex[username])
    IN  [inFlight EXCEPT
            !.mutex[username] = out.sem,
            !.req = [r \in Requests |->
                        IF <<r>> = out.resumed THEN [req[r] EXCEPT !.pc = "acquired"]
                        ELSE req[r]]]

\* A request with Basic credentials enters Auth.filenAuth and asks for the
\* mutex of its username.
LOGIN_ACQUIRE ==
    \E r \in Requests, username \in ProxyUsernames, password \in ProxyPasswords :
        LET out == Semaphore_acquire(inFlight.mutex[username], r)
        IN  /\ inFlight.req[r].pc = "idle"
            /\ \A q \in Requests : q < r => inFlight.req[q].pc # "idle"
            /\ inFlight' = [inFlight EXCEPT
                                !.mutex[username] = out.sem,
                                !.req[r] = [NoLogin EXCEPT
                                               !.pc = IF out.granted THEN "acquired"
                                                      ELSE "waiting",
                                               !.username = username,
                                               !.password = password]]
            /\ UNCHANGED <<proxyMode, authMode, defaultUsername, defaultPassword, users,
                           authedFilenUsers, authLast, accounts, nsVars, tenants>>

\* A request that holds the mutex runs up to its first await: it is bound
\* from the cache, or its credentials are refused, or it stores a session
\* and calls sdk.login.
LOGIN_START ==
    \E r \in Requests :
        LET me  == inFlight.req[r]
            out == Auth_filenAuth(users, authedFilenUsers, me.username, me.password)
        IN  /\ me.pc = "acquired"
            /\ IF out.logins = <<>> THEN
                   /\ inFlight' = Released([inFlight.req EXCEPT
                                               ![r].pc = IF out.passed THEN "bound"
                                                         ELSE "rejected",
                                               ![r].fromCache = out.passed], me.username)
                   /\ UNCHANGED users
               ELSE
                   /\ inFlight' = [inFlight EXCEPT
                                       !.req[r].pc = "login",
                                       !.req[r].login = out.logins,
                                       !.logins = Append(@, me.username)]
                   /\ users' = [users EXCEPT ![me.username] = out.logins[1].password]
            /\ UNCHANGED <<proxyMode, authMode, defaultUsername, defaultPassword,
                           authedFilenUsers, authLast, accounts, nsVars, tenants>>

\* sdk.login of a request settles: the password is cached and the request
\* bound, or the session is deleted and the request refused.
LOGIN_SETTLE ==
    \E r \in Requests :
        LET me    == inFlight.req[r]
            login == me.login[1]
            ok    == SdkLogin(login.email, login.password, login.twoFactorCode)
        IN  /\ me.pc = "login"
            /\ inFlight' = Released([inFlight.req EXCEPT
                                        ![r].pc = IF ok THEN "bound" ELSE "rejected"],
                                    me.username)
            /\ users' = IF ok THEN users ELSE [users EXCEPT ![me.username] = <<>>]
            /\ authedFilenUsers' = IF ok
                                   THEN [authedFilenUsers EXCEPT ![me.username] = me.password]
                                   ELSE authedFilenUsers
            /\ UNCHANGED <<proxyMode, authMode, defaultUsername, defaultPassword, authLast,
                           accounts, nsVars, tenants>>

LoginInit ==
    /\ NamespaceInit
    /\ Configured(TRUE, "basic", <<>>, <<>>)

LoginNext ==
    \/ LOGIN_ACQUIRE
    \/ LOGIN_START
    \/ LOGIN_SETTLE

LoginSpec == LoginInit /\ [][LoginNext]_vars

(***************************************************************************)
(* Two PUTs of one path inside Put.handle at the same time; items is the   *)
(* SDK's metadata index, which stat and GET read                           *)
(***************************************************************************)

\* Put.handle up to the await of uploadLocalFileStream.
PUT_UPLOAD ==
    \E w \in Writers : \E body \in WriterBodies(w) :
        LET path           == WrittenPath
            thisResource   == pathToResource(items, virtualFiles, tempDiskFiles, path)
            its1           == FsMkdir(items, dirname(path))
            parentResource == pathToResource(its1, virtualFiles, tempDiskFiles, dirname(path))
        IN  /\ inFlight.put[w].pc = "idle"
            /\ thisResource.type # "directory"
            /\ ~notDirectory(parentResource)
            /\ Len(firstBodyChunk(body)) # 0 /\ ~putMatcher(path)
            /\ items' = its1
            /\ inFlight' = [inFlight EXCEPT !.put[w] = [pc |-> "uploading", body |-> body]]
            /\ UNCHANGED <<proxyMode, authMode, defaultUsername, defaultPassword, users,
                           authedFilenUsers, authLast, accounts, tenants, virtualFiles,
                           tempDiskFiles, tempDisk, last>>

\* The upload completes at the backend and Put.handle goes on to the await
\* of _removeItem: the entries of the path are deleted from both maps.
PUT_UPLOADED ==
    \E w \in Writers :
        /\ inFlight.put[w].pc = "uploading"
        /\ inFlight' = [inFlight EXCEPT !.put[w].pc = "uploaded",
                                        !.uploaded = Append(@, inFlight.put[w].body)]
        /\ virtualFiles' = [virtualFiles EXCEPT ![WrittenPath] = NoResource]
        /\ tempDiskFiles' = [tempDiskFiles EXCEPT ![WrittenPath] = NoResource]
        /\ UNCHANGED <<proxyMode, authMode, defaultUsername, defaultPassword, users,
                       authedFilenUsers, authLast, accounts, tenants, items, tempDisk, last>>

\* _removeItem({ path })
PUT_REMOVE_ITEM ==
    \E w \in Writers :
        /\ inFlight.put[w].pc = "uploaded"
        /\ inFlight' = [inFlight EXCEPT !.put[w].pc = "removed"]
        /\ items' = [items EXCEPT ![WrittenPath] = NoItem]
        /\ UNCHANGED <<proxyMode, authMode, defaultUsername, defaultPassword, users,
                       authedFilenUsers, authLast, accounts, tenants, virtualFiles,
                       tempDiskFiles, tempDisk, last>>

\* _addItem({ path, item }) with the item of this handler's upload, and the
\* 201.
PUT_ADD_ITEM ==
    \E w \in Writers :
        /\ inFlight.put[w].pc = "removed"
        /\ inFlight' = [inFlight EXCEPT !.put[w].pc = "done"]
        /\ items' = [items EXCEPT ![WrittenPath] = FileItem(inFlight.put[w].body)]
        /\ UNCHANGED <<proxyMode, authMode, defaultUsername, defaultPassword, users,
                       authedFilenUsers, authLast, accounts, tenants, virtualFiles,
                       tempDiskFiles, tempDisk, last>>

WritersNext ==
    \/ PUT_UPLOAD
    \/ PUT_UPLOADED
    \/ PUT_REMOVE_ITEM
    \/ PUT_ADD_ITEM

WritersSpec == Init /\ [][WritersNext]_vars

(***************************************************************************)
(* Requests served while the backend fails                                 *)
(***************************************************************************)

\* A GET while the backend's stat fails with an RPC error.
GET_STAT_THROWS ==
    \E p \in FilePaths \cup DirPaths :
        /\ UNCHANGED authVars
        /\ Apply(Request("GET", p, Root, FALSE, <<>>),
                 Get_handleStatThrows(items, virtualFiles, tempDiskFiles, tempDisk, p))

FaultNext ==
    \/ PUT
    \/ GET_STAT_THROWS

FaultSpec == Init /\ [][FaultNext]_vars

RangeNext ==
    \/ PUT
    \/ RANGE_GET
    \/ RANGE_HEAD

RangeSpec == Init /\ [][RangeNext]_vars

(***************************************************************************)
(* The namespace as the next request sees it                               *)
(***************************************************************************)

GetNow(p) == Get_handle(items, virtualFiles, tempDiskFiles, tempDisk, p)

HeadNow(p) == Head_handle(items, virtualFiles, tempDiskFiles, tempDisk, p)

PropfindNow(p, depth) == Propfind_handle(items, virtualFiles, tempDiskFiles, tempDisk, p, depth)

\* The tiers that hold the path.
Holders(p) ==
    {t \in {"virtual", "disk", "backend"} :
        \/ t = "virtual" /\ p \in DOMAIN virtualFiles /\ virtualFiles[p].type # "none"
        \/ t = "disk" /\ p \in DOMAIN tempDiskFiles /\ tempDiskFiles[p].type # "none"
        \/ t = "backend" /\ FsStat(items, p).type # "none"}

Succeeded(op, statuses) == last.req.op = op /\ last.status \in statuses

Called(fn) == \E i \in 1..Len(last.calls) : last.calls[i].fn = fn

(***************************************************************************)
(* Properties of the namespace                                             *)
(***************************************************************************)

\* C1: after any sequence of requests, a path is held by at most one of the
\* virtual map, the disk-scratch map and the backend.
C1_OneTierPerPath == \A p \in FilePaths : Cardinality(Holders(p)) <= 1

\* C2: after a DELETE of a path answered 200, no tier holds the path, GET,
\* HEAD and PROPFIND of it answer 404, and its scratch file is gone.
C2_DeleteRemovesEverywhere ==
    Succeeded("DELETE", {200}) =>
        LET p == last.req.path
        IN  /\ Holders(p) = {}
            /\ GetNow(p).status = 404
            /\ HeadNow(p).status = 404
            /\ PropfindNow(p, 0).status = 404
            /\ p \in FilePaths => ~tempDisk[pathToTempDiskFileId(p, DefaultUser)].exists

\* C3: after a PUT with a non-empty body answered 201, GET of the path answers
\* 200 with exactly the bytes of the body, in the backend tier and in the
\* disk-scratch tier.
C3_PutThenGetSameBytes ==
    Succeeded("PUT", {201}) /\ last.req.body # <<>> =>
        /\ GetNow(last.req.path).status = 200
        /\ GetNow(last.req.path).data = last.req.body

\* C3 happens: a PUT of the longest body to a scratch path was just answered 201
\* and reads back, while a file of that length uploaded to the backend reads
\* back as well.
C3_Witness ==
    /\ Succeeded("PUT", {201}) /\ Len(last.req.body) = MaxBody
    /\ Called("fs.write")
    /\ GetNow(last.req.path).data = last.req.body
    /\ \E q \in FilePaths :
          /\ Holders(q) = {"backend"}
          /\ Len(GetNow(q).data) = MaxBody

\* C4: a PUT with an empty body answered 201 leaves a virtual zero-byte file
\* that GET serves with 200 and no bytes; a PUT with a non-empty body to a
\* virtual file removes the virtual entry and GET then serves the new bytes.
C4_EmptyPutThenOverwrite ==
    /\ Succeeded("PUT", {201}) /\ last.req.body = <<>> =>
          /\ virtualFiles[last.req.path] = VirtualResource(last.req.path)
          /\ GetNow(last.req.path).status = 200
          /\ Len(GetNow(last.req.path).data) = 0
    /\ Succeeded("PUT", {201}) /\ last.req.body # <<>> /\ last.was = "virtual" =>
          /\ virtualFiles[last.req.path] = NoResource
          /\ GetNow(last.req.path).status = 200
          /\ GetNow(last.req.path).data = last.req.body

\* C4 happens: a non-empty PUT has just replaced a virtual file.
C4_Witness ==
    /\ Succeeded("PUT", {201}) /\ last.req.body # <<>> /\ last.was = "virtual"
    /\ GetNow(last.req.path).data = last.req.body

\* C5: after a MOVE to another path with Overwrite: T answered 201 or 204, GET
\* of the destination succeeds and GET of the source answers 404.
C5_MoveLeavesSourceGone ==
    /\ Succeeded("MOVE", {201, 204})
    /\ last.req.overwrite
    /\ last.req.path # last.req.dest
    => /\ GetNow(last.req.dest).status = 200
       /\ GetNow(last.req.path).status = 404

\* C6: after a COPY of a file answered 201 or 204, GET of the source and GET of
\* the destination both answer 200 with the same bytes.
C6_CopyReadsTheSame ==
    Succeeded("COPY", {201, 204}) /\ last.was \in {"virtual", "disk", "file"} =>
        /\ GetNow(last.req.path).status = 200
        /\ GetNow(last.req.dest).status = 200
        /\ GetNow(last.req.path).data = GetNow(last.req.dest).data

\* C7: PROPFIND with Depth: 1 of a directory lists the names created under it by
\* MKCOL or PUT, and none of the names removed by DELETE or moved away by MOVE.
C7_ListingFollowsRequests ==
    LET p      == last.req.path
        listed == PropfindNow(dirname(p), 1).names
    IN  /\ Succeeded("PUT", {201}) \/ Succeeded("MKCOL", {201}) => basename(p) \in listed
        /\ Succeeded("DELETE", {200}) => basename(p) \notin listed
        /\ Succeeded("MOVE", {201, 204}) /\ p # last.req.dest => basename(p) \notin listed

\* C8: a PUT to a path whose name matches the scratch patterns never calls the
\* backend's uploadLocalFileStream.
C8_ScratchPutNeverUploads ==
    last.req.op = "PUT" /\ basename(last.req.path) \in ScratchNames =>
        ~Called("uploadLocalFileStream")

\* C8 happens: a non-empty PUT to a scratch path was written to the scratch directory.
C8_Witness ==
    /\ Succeeded("PUT", {201})
    /\ basename(last.req.path) \in ScratchNames
    /\ last.req.body # <<>>
    /\ Called("fs.write")
    /\ tempDiskFiles[last.req.path].tempDiskId # NoId

(***************************************************************************)
(* Properties of the authenticator                                         *)
(***************************************************************************)

\* C9: in basic single-tenant mode a request with Basic credentials passes if
\* and only if the username and the password it carries equal the configured
\* ones, for every password the scheme can carry, those with ':' included.
C9_BasicPassesIffEqual ==
    ~proxyMode /\ authMode = "basic" /\ authLast.header.scheme = "Basic" =>
        (authLast.passed <=>
            /\ authLast.presented.username = defaultUsername
            /\ authLast.presented.password = defaultPassword)

\* C10: in proxy mode a request of e@x with the raw password
\* password=p&twoFactorAuthentication=123456 logs in at the backend with the
\* email e@x, the password p and the code 123456 and is bound to e@x; a later
\* request with the same raw password is bound from the authed cache without
\* another login.
C10_ProxyTwoFactorLogin ==
    /\ proxyMode
    /\ authLast.presented =
          [username |-> <<"e", "@", "x">>,
           password |-> <<PasswordPrefix, "p", TwoFactorSeparator, "123456">>]
    => /\ authLast.passed
       /\ authLast.username = <<"e", "@", "x">>
       /\ authLast.logins =
             IF authLast.wasAuthed THEN <<>>
             ELSE <<LoginCall(<<"e", "@", "x">>, <<"p">>, <<"123456">>)>>

\* C11: no verb handler runs unless the authenticator bound a username to the
\* request; a request without an Authorization header, with one of another
\* scheme, with malformed credentials or with wrong credentials is answered
\* 401 with a WWW-Authenticate header and is not handed to a handler.
C11_NoHandlerWithoutUsername ==
    LET presented == authLast.presented
        wrong ==
            IF proxyMode THEN presented.username \notin DOMAIN accounts
            ELSE \/ presented.username # defaultUsername
                 \/ presented.password # defaultPassword
    IN  /\ authLast.next => authLast.username # <<>>
        /\ authLast.header.scheme \in {"none", "Digest", "Basic"} /\ wrong =>
               /\ authLast.status = 401
               /\ authLast.wwwAuthenticate
               /\ ~authLast.next

\* C11, what holds of it: a request handed to the handlers has a username
\* bound, and a request not handed on is answered 401 with WWW-Authenticate.
C11_HandlerOnlyAfterBinding ==
    authLast.header.scheme \in {"none", "Digest", "Basic"} =>
        /\ authLast.next => authLast.username # <<>>
        /\ ~authLast.next => authLast.status = 401 /\ authLast.wwwAuthenticate

\* C12: in proxy mode, the request that follows a passwordChanged event of a
\* user and presents the raw password the cache held for that user is not
\* bound from the cache: it logs in at the backend again, and is answered 401
\* when that login fails.
C12_PasswordChangedDiscardsCache ==
    proxyMode /\ authLast.afterChange =>
        /\ Len(authLast.logins) = 1
        /\ authLast.logins[1].email = authLast.presented.username
        /\ authLast.passed <=>
               SdkLogin(authLast.logins[1].email, authLast.logins[1].password,
                        authLast.logins[1].twoFactorCode)
        /\ ~authLast.passed =>
               /\ authLast.status = 401
               /\ ~authLast.next
               /\ authedFilenUsers[authLast.presented.username] = <<>>

\* A request after a passwordChanged event presented the discarded password,
\* its login failed and it was answered 401.
C12_Witness ==
    /\ proxyMode
    /\ authLast.afterChange
    /\ Len(authLast.logins) = 1
    /\ ~authLast.passed
    /\ authLast.status = 401

(***************************************************************************)
(* Properties of reads                                                     *)
(***************************************************************************)

\* The last byte a range read means for a resource of the size.
LastByte(range, size) == IF range.form = "open" THEN size - 1 ELSE range.b

\* What a read of the range of a file of the size answers: 206 with the
\* Content-Range and the Content-Length of the range and, for GET, the bytes
\* of the range, when the range lies in the file; 400 when it ends before it
\* starts or after the last byte.
RangeAnswered ==
    LET a == last.range.a
        b == LastByte(last.range, last.size)
        n == last.size
    IN  /\ 0 <= a /\ a <= b /\ b < n =>
               /\ last.status = 206
               /\ last.contentRange = <<a, b, n>>
               /\ last.contentLength = <<b - a + 1>>
               /\ last.req.op = "GET" =>
                      /\ Len(last.data) = b - a + 1
                      /\ \A i \in a..b : last.data[i - a + 1] = last.full[i + 1]
        /\ a > b \/ b >= n => last.status = 400

RangeAsked ==
    /\ last.req.op \in {"GET", "HEAD"}
    /\ last.range.form \in {"closed", "open"}

\* C13: for a file of size n and a header Range: bytes=a-b (or bytes=a-, with
\* b = n-1), GET and HEAD answer 206 with Content-Range: bytes a-b/n and
\* Content-Length b-a+1 when 0 <= a <= b < n, the body of GET being the bytes
\* a to b of the full GET, and answer 400 when a > b or b >= n.
C13_RangeOfAnyFile ==
    RangeAsked /\ last.was \in {"virtual", "disk", "file"} => RangeAnswered

\* C13, amended: the same for a file of the disk-scratch tier or of the
\* backend, and for HEAD of a virtual file; GET of a virtual file answers 200
\* with Content-Length 0 and an empty body whatever the range.
C13_RangeOfStoredFile ==
    /\ RangeAsked /\ last.was \in {"disk", "file"} => RangeAnswered
    /\ RangeAsked /\ last.was = "virtual" /\ last.req.op = "HEAD" => RangeAnswered
    /\ RangeAsked /\ last.was = "virtual" /\ last.req.op = "GET" =>
           /\ last.status = 200
           /\ last.contentLength = <<0>>
           /\ last.data = <<>>

\* A GET read the last byte alone of a file of MaxBody bytes.
C13_Witness ==
    /\ RangeAsked
    /\ last.req.op = "GET"
    /\ last.was \in {"disk", "file"}
    /\ last.size = MaxBody
    /\ last.range.a = MaxBody - 1
    /\ last.status = 206
    /\ last.data = <<Byte(MaxBody)>>

(***************************************************************************)
(* Properties of MOVE and COPY                                             *)
(***************************************************************************)

\* C14: a MOVE or a COPY of an existing source to another path that resolves
\* to an existing resource, in any tier, without Overwrite: T, answers 403
\* and changes nothing: no tier changes and nothing is unlinked, renamed or
\* copied.
C14_ExistingDestinationIsKept ==
    [][(/\ last'.req.op \in {"MOVE", "COPY"}
        /\ ~last'.req.overwrite
        /\ last'.req.path # last'.req.dest
        /\ last'.was # "none"
        /\ last'.dstWas # "none")
       => /\ last'.status = 403
          /\ last'.calls = <<>>
          /\ UNCHANGED <<items, virtualFiles, tempDiskFiles, tempDisk>>]_vars

\* A MOVE without Overwrite: T to a path that held a file was answered 403.
C14_Witness ==
    /\ last.req.op = "MOVE"
    /\ ~last.req.overwrite
    /\ last.req.path # last.req.dest
    /\ last.was # "none"
    /\ last.dstWas \in {"virtual", "disk", "file"}
    /\ last.status = 403

\* C15: a MOVE or a COPY of an existing source, file or directory, in any
\* tier, whose Destination names the source itself, with or without a slash
\* at its end, answers 201 and does nothing: nothing is unlinked, renamed or
\* copied and no tier changes.
C15_SameResourceIsNoOp ==
    [][(/\ last'.req.op \in {"MOVE", "COPY"}
        /\ last'.was # "none"
        /\ removeLastSlash(last'.req.dest) = last'.req.path)
       => /\ last'.status = 201
          /\ last'.calls = <<>>
          /\ UNCHANGED <<items, virtualFiles, tempDiskFiles, tempDisk>>]_vars

\* C16: a MOVE or a COPY of a directory to a path below it answers 403 and
\* changes nothing.
C16_DescendantIsRefused ==
    [][(/\ last'.req.op \in {"MOVE", "COPY"}
        /\ last'.was = "directory"
        /\ last'.req.dest # last'.req.path
        /\ IsUnder(last'.req.dest, last'.req.path))
       => /\ last'.status = 403
          /\ last'.calls = <<>>
          /\ UNCHANGED <<items, virtualFiles, tempDiskFiles, tempDisk>>]_vars

(***************************************************************************)
(* Properties of PUT, MKCOL and GET                                        *)
(***************************************************************************)

\* The tier the parent of the path resolves to.
ParentTier(p) == TierOf(items, virtualFiles, tempDiskFiles, dirname(p))

\* C17: a PUT to a path whose parent resolves to a file, in the virtual, the
\* disk-scratch or the backend tier, answers 412 and creates nothing for the
\* path: nothing is uploaded, no scratch file is written and the path's
\* virtual entry, disk-scratch entry and backend item stay as they were.
C17_PutBelowFileCreatesNothing ==
    [][(/\ last'.req.op = "PUT"
        /\ ParentTier(last'.req.path) \in {"virtual", "disk", "file"})
       => LET path == last'.req.path
              id   == pathToTempDiskFileId(path, DefaultUser)
          IN  /\ last'.status = 412
              /\ \A i \in 1..Len(last'.calls) :
                     last'.calls[i].fn \notin {"uploadLocalFileStream", "fs.write"}
              /\ virtualFiles'[path] = virtualFiles[path]
              /\ tempDiskFiles'[path] = tempDiskFiles[path]
              /\ tempDisk'[id] = tempDisk[id]
              /\ items'[path] = items[path]]_vars

\* A PUT with a body to a path below a file was answered 412, for a parent of
\* the backend and for a parent of the disk-scratch tier.
C17_Witness ==
    /\ last.req.op = "PUT"
    /\ last.req.body # <<>>
    /\ last.status = 412
    /\ \/ /\ last.req.path = <<"d", "a">>
          /\ items[<<"d">>].type = "file"
       \/ /\ last.req.path = <<"t", "a">>
          /\ tempDiskFiles[<<"t">>].type = "file"

\* C18: a MKCOL of a path whose parent is missing or is no directory answers
\* 412 and creates nothing.
C18_MkcolBelowNoDirectory ==
    [][(/\ last'.req.op = "MKCOL"
        /\ ParentTier(last'.req.path) # "directory")
       => /\ last'.status = 412
          /\ UNCHANGED <<items, virtualFiles, tempDiskFiles, tempDisk>>]_vars

\* C19: a MKCOL of a path that is a directory answers 201 and leaves the
\* namespace as it was, so that two MKCOL of one path both answer 201.
C19_MkcolTwice ==
    [][(/\ last'.req.op = "MKCOL"
        /\ last'.was = "directory")
       => /\ last'.status = 201
          /\ UNCHANGED <<items, virtualFiles, tempDiskFiles, tempDisk>>]_vars

\* C20: GET makes the checks of HEAD before it reads: a path that resolves to
\* nothing answers 404 and a directory answers 403.
C20_GetChecksAsHead ==
    last.req.op = "GET" =>
        /\ last.was = "none" => last.status = 404
        /\ last.was = "directory" => last.status = 403

(***************************************************************************)
(* Properties of failures                                                  *)
(***************************************************************************)

\* C21: every response that is not 2xx, the 401 of the authenticator
\* included, carries Content-Length: 0 and no body.
C21_ErrorsCarryNoBody ==
    authLast.status # 0 /\ authLast.status \notin 200..299 =>
        /\ authLast.contentLength = <<0>>
        /\ authLast.body = <<>>

\* C22: a request whose handler's backend call fails before the headers are
\* sent is answered 500 with an empty body; none is left without a response.
C22_BackendFailureAnswers500 ==
    Called("throw") => last.status = 500 /\ last.data = <<>>

\* C23: in proxy mode a failed login of a user leaves the user's session as
\* it was: whenever authedFilenUsers holds a password for the user, users
\* holds the user's session.
C23_FailedLoginKeepsSession ==
    proxyMode =>
        \A u \in DOMAIN authedFilenUsers : authedFilenUsers[u] # <<>> => users[u] # <<>>

\* C28: in digest mode a request is bound to the configured user only if the
\* username parameter of its Digest header equals the configured username and
\* its response is the one the configured username and password give.
C28_DigestBindsConfiguredUsername ==
    authMode = "digest" /\ authLast.passed =>
        /\ authLast.header.params.username = defaultUsername
        /\ authLast.header.params.response =
               DigestResponse(defaultUsername, defaultPassword, authLast.header.method,
                              authLast.header.params)

\* C30: when the upload of a PUT with a body fails, whether the SDK calls
\* onError or only rejects, the PUT is answered 500 and afterwards the path
\* has no entry in virtualFiles and none in tempDiskFiles.
C30_FailedUploadLeavesNoEntry ==
    last.req.op = "PUT" /\ Called("throw") =>
        /\ last.status = 500
        /\ virtualFiles[last.req.path] = NoResource
        /\ tempDiskFiles[last.req.path] = NoResource

(***************************************************************************)
(* Properties of what a MOVE carries and of resolution                     *)
(***************************************************************************)

\* C26: after a MOVE of a file to another path that answers 201 or 204, GET
\* of the destination returns the bytes GET of the source returned before
\* the MOVE, for a virtual, a disk-scratch and a backend source and whatever
\* tier held the destination.
C26_MoveCarriesTheBytes ==
    [][(/\ last'.req.op = "MOVE"
        /\ last'.status \in {201, 204}
        /\ last'.req.path # last'.req.dest
        /\ last'.was \in {"virtual", "disk", "file"})
       => LET before == Get_handle(items, virtualFiles, tempDiskFiles, tempDisk, last'.req.path)
              after  == Get_handle(items', virtualFiles', tempDiskFiles', tempDisk',
                                   last'.req.dest)
          IN  before.status = 200 => after.status = 200 /\ after.data = before.data]_vars

\* The entry a map holds for a path, none when the map does not hold it.
Held(map, p) == IF p \in DOMAIN map THEN map[p] ELSE NoResource

\* C29: resolution of a path returns the virtual entry if virtualFiles holds
\* the path, else the scratch entry if tempDiskFiles holds it, else the stat
\* of the backend wrapped as a backend resource, and none when the backend
\* has nothing at the path; urlToResource and pathToResource agree.
C29_ResolutionOrder ==
    \A p \in ItemPaths :
        LET resource == pathToResource(items, virtualFiles, tempDiskFiles, p)
        IN  /\ resource = urlToResource(items, virtualFiles, tempDiskFiles, p)
            /\ IF Held(virtualFiles, p) # NoResource THEN
                   resource = virtualFiles[p] /\ resource.isVirtual
               ELSE IF Held(tempDiskFiles, p) # NoResource THEN
                   resource = tempDiskFiles[p] /\ resource.tempDiskId # NoId
               ELSE IF items[p].type # "none" THEN
                   /\ resource = StatResource(p, items[p])
                   /\ ~resource.isVirtual /\ resource.tempDiskId = NoId
               ELSE resource = NoResource

\* A path is held by the virtual map and by the scratch map, with bytes in
\* the scratch file, and a GET of it was answered from the virtual entry.
C29_Witness ==
    /\ last.req.op = "GET" /\ last.status = 200 /\ last.data = <<>>
    /\ Held(virtualFiles, last.req.path) # NoResource
    /\ Held(tempDiskFiles, last.req.path) # NoResource
    /\ tempDiskFiles[last.req.path].size > 0

\* What a GET of a user's path is answered, with the scratch directory td.
TenantGet(u, td, p) ==
    LET response == Get_handle(tenants[u].items, tenants[u].vf, tenants[u].df, td, p)
    IN  <<response.status, response.data>>

\* C27: in a proxy a request bound to one user leaves every other user's
\* maps and backend items as they were, and every GET of another user is
\* answered after the request what it would have been answered before it.
C27_OtherUsersAreUnaffected ==
    [][\A u \in Tenants :
          last'.username # u =>
              /\ tenants'[u] = tenants[u]
              /\ \A p \in TenantPaths : TenantGet(u, tempDisk', p) = TenantGet(u, tempDisk, p)]_vars

\* The requests that have entered Auth.filenAuth for a username.
Entered(u) == {r \in Requests : inFlight.req[r].username = u}

\* Credentials that log in at the backend when nothing is cached.
ValidCredentials(u, password) ==
    Auth_filenAuth([x \in Usernames |-> <<>>], [x \in Usernames |-> <<>>], u, password).passed

\* C24: in a proxy the requests for one username go through Auth.filenAuth
\* one at a time: at most one login of the username is in flight; and when
\* all of them carry the same valid credentials of a username nothing is
\* cached for, one login is made, none is refused, and once all are bound
\* all but the one that logged in were bound from the authed cache.
C24_OneLoginPerUsername ==
    \A u \in ProxyUsernames :
        /\ Cardinality({r \in Entered(u) : inFlight.req[r].pc = "login"}) <= 1
        /\ (\A r \in Entered(u) : ValidCredentials(u, inFlight.req[r].password)) =>
               /\ Len(SelectSeq(inFlight.logins, LAMBDA x : x = u)) <= 1
               /\ \A r \in Entered(u) : inFlight.req[r].pc # "rejected"
               /\ (Entered(u) # {} /\ \A r \in Entered(u) : inFlight.req[r].pc = "bound") =>
                      /\ Len(SelectSeq(inFlight.logins, LAMBDA x : x = u)) = 1
                      /\ Cardinality({r \in Entered(u) : inFlight.req[r].fromCache})
                             = Cardinality(Entered(u)) - 1

\* All the requests carried the valid credentials of one username and are
\* bound, after one of them waited in the queue of the mutex while the login
\* of another was in flight.
C24_Witness ==
    \E u \in ProxyUsernames :
        /\ Entered(u) = Requests
        /\ \A r \in Requests : inFlight.req[r].pc = "bound"
        /\ inFlight.logins = <<u>>

\* C25: when two PUTs with a body to one backend path overlap, then after
\* both are done stat and GET of the path yield the body whose upload
\* completed last at the backend, for every interleaving of the handlers'
\* upload, _removeItem and _addItem steps.
C25_LastUploadIsServed ==
    (\A w \in Writers : inFlight.put[w].pc = "done") =>
        /\ FsStat(items, WrittenPath) = FileItem(inFlight.uploaded[Len(inFlight.uploaded)])
        /\ GetNow(WrittenPath).data = inFlight.uploaded[Len(inFlight.uploaded)]

\* C31: when the backend's stat fails with an RPC error while the path of a
\* GET is resolved, the GET is answered 500, not 404.
C31_StatFailureAnswers500 ==
    last.req.op = "GET" /\ Called("throw") => last.status = 500

\* C32: a MOVE or COPY with Overwrite: T from a virtual or scratch source onto
\* a scratch destination issues no unlink at the backend; it issues
\* unlink(permanent = true) only when the backend holds the destination.
C32_ScratchDestinationIsNotUnlinked ==
    /\ last.req.op \in {"MOVE", "COPY"}
    /\ last.req.overwrite
    /\ last.was \in {"virtual", "disk"}
    /\ last.req.path # last.req.dest
    => /\ last.dstWas = "disk" => ~Called("unlink")
       /\ \A i \in 1..Len(last.calls) :
              last.calls[i].fn = "unlink" /\ last.calls[i].permanent =>
                  last.dstWas \in {"file", "directory"}

\* C33: DELETE of a backend resource, and the overwrite step of a MOVE or COPY
\* of a backend source, never delete for good: every unlink they issue at
\* the backend has permanent = false.
C33_BackendSourceUnlinksToTrash ==
    \/ last.req.op = "DELETE"
    \/ last.req.op \in {"MOVE", "COPY"} /\ last.was \in {"file", "directory"}
    => \A i \in 1..Len(last.calls) :
           last.calls[i].fn = "unlink" => ~last.calls[i].permanent

\* A MOVE of a backend file has replaced a destination after an unlink.
C33_Witness ==
    /\ Succeeded("MOVE", {204}) /\ last.was = "file" /\ Called("unlink")
    /\ last.req.path # last.req.dest

\* C34: after any sequence of completed PUT, DELETE, MOVE and COPY requests,
\* the scratch file named by every entry of tempDiskFiles exists on disk.
C34_ScratchEntriesHaveFiles ==
    \A p \in DOMAIN tempDiskFiles :
        tempDiskFiles[p] # NoResource => tempDisk[tempDiskFiles[p].tempDiskId].exists

(***************************************************************************)
(* Timestamps: the dates PROPPATCH sets and the dates PROPFIND reports     *)
(***************************************************************************)

\* Date.now() when a PUT is served, in ms.
PutClock == {1000}

\* The dates a PROPPATCH body carries, in ms; 0 is a property that is absent
\* or not a valid date.
PatchDates == {0, 3000}

\* The time fields Put.handle gives the record of an empty or a scratch-tier
\* file: it sets no creation.
PutTimes(now) == [mtimeMs |-> now, birthtimeMs |-> now, lastModified |-> now, creation |-> 0]

\* The metadata times of an uploaded item.
ItemTimes(now) == [lastModified |-> now, creation |-> now]

\* The times of the Stats the backend stat builds from an item's metadata.
StatTimes(item) ==
    [mtimeMs |-> item.lastModified, birthtimeMs |-> item.creation,
     lastModified |-> item.lastModified, creation |-> item.creation]

\* dayjs(ms).format("ddd, DD MMM YYYY HH:mm:ss [GMT]"): the date to the second.
FormatDate(ms) == <<"GMT", ms \div 1000>>

\* Put.handle, with the times of the record it stores.
Put_handleTimes(username, its, vf, df, td, path, body, now) ==
    LET out == Put_handle(username, its, vf, df, td, path, body)
    IN  IF out.status # 201 THEN out
        ELSE IF Len(firstBodyChunk(body)) = 0 THEN
            [out EXCEPT !.vf[path] = PutTimes(now) @@ @]
        ELSE IF putMatcher(path) THEN
            [out EXCEPT !.df[path] = PutTimes(now) @@ @]
        ELSE [out EXCEPT !.items[path] = ItemTimes(now) @@ @]

\* urlToResource, with the times of the resource.
urlToResourceTimes(its, vf, df, url) ==
    LET resource == urlToResource(its, vf, df, url)
    IN  IF resource.type = "file" /\ ~resource.isVirtual /\ resource.tempDiskId = NoId
        THEN StatTimes(its[resource.path]) @@ resource
        ELSE resource

\* Proppatch.handle, with the dates parsed from the body: lastModified and
\* creation replace the fields of these names in the record of the file.
Proppatch_handleTimes(its, vf, df, td, url, lastModified, creation) ==
    LET resource == urlToResourceTimes(its, vf, df, url)
        path     == removeLastSlash(url)
    IN  IF resource.type = "none" THEN Reply(its, vf, df, td, 404, <<>>)
        ELSE IF resource.type # "file" THEN Reply(its, vf, df, td, 207, <<>>)
        ELSE IF lastModified = 0 /\ creation = 0 THEN Reply(its, vf, df, td, 207, <<>>)
        ELSE IF resource.isVirtual THEN
            Reply(its,
                  [vf EXCEPT ![path] =
                      [@ EXCEPT !.lastModified = IF lastModified # 0 THEN lastModified ELSE @,
                                !.creation = IF creation # 0 THEN creation ELSE @]],
                  df, td, 207, <<>>)
        ELSE IF resource.tempDiskId # NoId THEN
            Reply(its, vf,
                  [df EXCEPT ![path] =
                      [@ EXCEPT !.lastModified = IF lastModified # 0 THEN lastModified ELSE @,
                                !.creation = IF creation # 0 THEN creation ELSE @]],
                  td, 207, <<>>)
        ELSE
            Reply([its EXCEPT ![path] =
                      [@ EXCEPT !.lastModified =
                                    IF lastModified # 0 THEN lastModified ELSE resource.lastModified,
                                !.creation =
                                    IF creation # 0 THEN creation ELSE resource.creation]],
                  vf, df, td, 207, <<Call("editFileMetadata", path, FALSE)>>)

\* Propfind.handle and Responses.propfind for a file: getlastmodified and
\* creationdate, in this order.
Propfind_handleTimes(its, vf, df, td, url) ==
    LET resource == urlToResourceTimes(its, vf, df, url)
    IN  IF resource.type = "none" THEN Reply(its, vf, df, td, 404, <<>>)
        ELSE IF resource.type # "file" THEN Reply(its, vf, df, td, 207, <<>>)
        ELSE Out(its, vf, df, td, 207, <<>>,
                 <<FormatDate(resource.mtimeMs), FormatDate(resource.birthtimeMs)>>, {})

TIMES_PUT ==
    \E p \in FilePaths, b \in {Stream(0), Stream(1)}, now \in PutClock :
        /\ UNCHANGED authVars
        /\ Apply(Request("PUT", p, Root, FALSE, b),
                 Put_handleTimes(DefaultUser, items, virtualFiles, tempDiskFiles, tempDisk,
                                 p, b, now))

TIMES_PROPPATCH ==
    \E p \in FilePaths, lastModified \in PatchDates, creation \in PatchDates :
        /\ UNCHANGED authVars
        /\ Apply(Request("PROPPATCH", p, Root, FALSE, <<lastModified, creation>>),
                 Proppatch_handleTimes(items, virtualFiles, tempDiskFiles, tempDisk,
                                       p, lastModified, creation))

TIMES_PROPFIND ==
    \E p \in FilePaths :
        /\ UNCHANGED authVars
        /\ Apply(Request("PROPFIND", p, Root, FALSE, <<>>),
                 Propfind_handleTimes(items, virtualFiles, tempDiskFiles, tempDisk, p))

TimesNext == \/ TIMES_PUT \/ TIMES_PROPPATCH \/ TIMES_PROPFIND

TimesSpec == Init /\ [][TimesNext]_vars

\* What a PROPFIND of the path reports now.
PropfindTimesNow(p) ==
    Propfind_handleTimes(items, virtualFiles, tempDiskFiles, tempDisk, p).data

\* C35: after a PROPPATCH that sets getlastmodified (or creationdate) to a
\* valid date on a file of any tier has answered 207, a PROPFIND of the file
\* reports the new date in getlastmodified (respectively creationdate).
C35_PropfindReportsPatchedDates ==
    /\ last.req.op = "PROPPATCH"
    /\ last.status = 207
    /\ last.was \in {"virtual", "disk", "file"}
    => /\ last.req.body[1] # 0 =>
              PropfindTimesNow(last.req.path)[1] = FormatDate(last.req.body[1])
       /\ last.req.body[2] # 0 =>
              PropfindTimesNow(last.req.path)[2] = FormatDate(last.req.body[2])

\* C35, for a file the backend holds only: there the PROPFIND reports the patched dates.
BackendPropfindReportsPatchedDates ==
    /\ last.req.op = "PROPPATCH"
    /\ last.status = 207
    /\ last.was = "file"
    => /\ last.req.body[1] # 0 =>
              PropfindTimesNow(last.req.path)[1] = FormatDate(last.req.body[1])
       /\ last.req.body[2] # 0 =>
              PropfindTimesNow(last.req.path)[2] = FormatDate(last.req.body[2])

(***************************************************************************)
(* The quota of PROPFIND: Propfind.statfs and the user's cache             *)
(***************************************************************************)

\* The seconds the clock may reach.
MaxClock == 150

\* cache.set("statfs", stat, 60): the seconds a cached quota lives.
StatfsTTL == 60

\* Everything but the requests in flight.
settled ==
    <<nsVars, proxyMode, authMode, defaultUsername, defaultPassword, users,
      authedFilenUsers, authLast, accounts, tenants>>

\* NodeCache.get: the value, or 0 (undefined) when nothing is cached or the
\* entry's time has passed.
NodeCache_get(cache, now) ==
    IF cache.has /\ ~(cache.expires < now) THEN cache.value ELSE 0

\* NodeCache.set with a ttl in seconds.
NodeCache_set(cache, value, ttl, now) ==
    [has |-> TRUE, value |-> value, expires |-> now + ttl]

\* Propfind.statfs up to its await: a cached quota is returned and reported;
\* without one the backend statfs is called and the request waits for it.
Propfind_statfs(st, r) ==
    LET get == NodeCache_get(st.cache, st.now)
    IN  IF get # 0
        THEN [st EXCEPT !.report = [at |-> st.now, used |-> get]]
        ELSE [st EXCEPT !.pf[r] = "statfs",
                        !.calls = @ \cup {[at |-> st.now, by |-> r]}]

\* Propfind.statfs after its await: the quota the backend returned is cached
\* for 60 seconds and reported.
Propfind_statfsResolved(st, r) ==
    [st EXCEPT !.cache = NodeCache_set(@, st.used, StatfsTTL, st.now),
               !.pf[r] = "idle",
               !.report = [at |-> st.now, used |-> st.used]]

\* A PROPFIND of an existing resource arrives and asks for the quota.
PROPFIND_STATFS ==
    \E r \in Propfinds :
        /\ inFlight.statfs.pf[r] = "idle"
        /\ inFlight' = [inFlight EXCEPT !.statfs = Propfind_statfs(@, r)]
        /\ UNCHANGED settled

\* The backend answers the statfs of a PROPFIND.
PROPFIND_STATFS_RESOLVED ==
    \E r \in Propfinds :
        /\ inFlight.statfs.pf[r] = "statfs"
        /\ inFlight' = [inFlight EXCEPT !.statfs = Propfind_statfsResolved(@, r)]
        /\ UNCHANGED settled

\* Half a minute passes.
STATFS_CLOCK ==
    /\ inFlight.statfs.now + 30 <= MaxClock
    /\ inFlight' = [inFlight EXCEPT !.statfs.now = @ + 30]
    /\ UNCHANGED settled

\* The user's storage use changes at the backend.
STATFS_USED ==
    /\ inFlight' = [inFlight EXCEPT !.statfs.used = 3 - @]
    /\ UNCHANGED settled

StatfsNext ==
    \/ PROPFIND_STATFS \/ PROPFIND_STATFS_RESOLVED \/ STATFS_CLOCK \/ STATFS_USED

StatfsSpec == Init /\ [][StatfsNext]_vars

\* C36: the backend statfs is called at most once per 60-second window across
\* any sequence of PROPFIND requests, overlapping ones included, and within
\* the window every PROPFIND reports the cached quota.
C36_OneStatfsPerWindow ==
    LET st == inFlight.statfs
    IN  /\ \A c1, c2 \in st.calls :
               c1 # c2 => c1.at - c2.at >= StatfsTTL \/ c2.at - c1.at >= StatfsTTL
        /\ NodeCache_get(st.cache, st.now) # 0 /\ st.report.used # 0
               /\ st.report.at + StatfsTTL >= st.cache.expires
               => st.report.used = st.cache.value

\* The backend calls made for the same request slot, one PROPFIND after
\* another, are a window apart: only overlapping requests share a window.
OneStatfsPerWindowInSequence ==
    LET st == inFlight.statfs
    IN  \A c1, c2 \in st.calls :
            c1.by = c2.by /\ c1 # c2 =>
                c1.at - c2.at >= StatfsTTL \/ c2.at - c1.at >= StatfsTTL

(***************************************************************************)
(* WebDAVServerCluster: the namespace the workers serve                    *)
(***************************************************************************)

\* What no worker's request changes: the maps of a single WebDAVServer and
\* the configuration.
outsideCluster ==
    <<virtualFiles, tempDiskFiles, proxyMode, authMode, defaultUsername,
      defaultPassword, users, authedFilenUsers, authLast, accounts, tenants>>

\* A worker serves a request with the handler of its own WebDAVServer: the
\* maps are the worker's, the backend and the scratch directory
\* (tempDiskPath()) are the same for every worker.
Worker_handle(w, req, out) ==
    LET server == inFlight.cluster.server[w]
    IN  /\ items' = out.items
        /\ tempDisk' = out.td
        /\ inFlight' = [inFlight EXCEPT
                            !.cluster.server[w] = [vf |-> out.vf, df |-> out.df],
                            !.cluster.served = w]
        /\ last' = Served(req, TierOf(items, server.vf, server.df, req.path), "none", out)

\* What a GET, a HEAD and a PROPFIND of the path answer now when the worker
\* serves them.
WorkerGet(w, p) ==
    Get_handle(items, inFlight.cluster.server[w].vf, inFlight.cluster.server[w].df,
               tempDisk, p)

WorkerHead(w, p) ==
    Head_handle(items, inFlight.cluster.server[w].vf, inFlight.cluster.server[w].df,
                tempDisk, p)

WorkerPropfind(w, p) ==
    Propfind_handle(items, inFlight.cluster.server[w].vf, inFlight.cluster.server[w].df,
                    tempDisk, p, 0)

CLUSTER_PUT ==
    \E w \in Workers, p \in FilePaths, b \in {Stream(0), Stream(1)} :
        /\ UNCHANGED outsideCluster
        /\ Worker_handle(w, Request("PUT", p, Root, FALSE, b),
                         Put_handle(DefaultUser, items, inFlight.cluster.server[w].vf,
                                    inFlight.cluster.server[w].df, tempDisk, p, b))

CLUSTER_GET ==
    \E w \in Workers, p \in FilePaths :
        /\ UNCHANGED outsideCluster
        /\ Worker_handle(w, Request("GET", p, Root, FALSE, <<>>), WorkerGet(w, p))

CLUSTER_HEAD ==
    \E w \in Workers, p \in FilePaths :
        /\ UNCHANGED outsideCluster
        /\ Worker_handle(w, Request("HEAD", p, Root, FALSE, <<>>), WorkerHead(w, p))

CLUSTER_PROPFIND ==
    \E w \in Workers, p \in FilePaths :
        /\ UNCHANGED outsideCluster
        /\ Worker_handle(w, Request("PROPFIND", p, Root, FALSE, <<>>), WorkerPropfind(w, p))

ClusterNext == \/ CLUSTER_PUT \/ CLUSTER_GET \/ CLUSTER_HEAD \/ CLUSTER_PROPFIND

ClusterSpec == Init /\ [][ClusterNext]_vars

\* C37: with more than one worker the namespace does not depend on the worker
\* that serves a request: after an empty PUT or a scratch-tier PUT served by
\* one worker, a GET, HEAD or PROPFIND of the path finds it at every worker,
\* with the answer of the worker that served the PUT.
C37_WorkersServeOneNamespace ==
    LET served == inFlight.cluster.served
        server == inFlight.cluster.server[served]
        p      == last.req.path
    IN  /\ last.req.op = "PUT"
        /\ last.status = 201
        /\ TierOf(items, server.vf, server.df, p) \in {"virtual", "disk"}
        => \A w \in Workers :
               /\ WorkerGet(w, p).status = WorkerGet(served, p).status
               /\ WorkerGet(w, p).data = WorkerGet(served, p).data
               /\ WorkerHead(w, p).status = WorkerHead(served, p).status
               /\ WorkerPropfind(w, p).status = 207

(***************************************************************************)
(* WebDAVServerCluster: the master and its workers                         *)
(***************************************************************************)

\* The threads option.
Threads == Cardinality(Workers)

\* The worker exits a behaviour may contain.
MaxExits == 5

\* spawnWorker: unless stopSpawning, fork a worker and enter it, not ready,
\* in this.workers.
spawnWorker(ma) ==
    IF ma.stopSpawning THEN ma
    ELSE [ma EXCEPT !.forked = @ + 1,
                    !.live = @ \cup {ma.forked + 1},
                    !.workers = @ \cup {ma.forked + 1}]

RECURSIVE spawnWorkers(_, _)
spawnWorkers(ma, n) == IF n = 0 THEN ma ELSE spawnWorkers(spawnWorker(ma), n - 1)

\* startCluster in the master: fork `threads` workers, listen to exit and message.
startCluster(ma) == [spawnWorkers(ma, Threads) EXCEPT !.pc = "starting"]

\* cluster.on("message"): a "ready" of a worker in this.workers is counted;
\* with `threads` of them counted, start() resolves.
onMessage(ma, id) ==
    IF id \in ma.workers
    THEN [ma EXCEPT !.workersReady = @ + 1,
                    !.ready = @ \cup {id},
                    !.pc = IF ma.workersReady + 1 >= Threads /\ ma.pc = "starting"
                           THEN "started" ELSE @]
    ELSE ma

\* cluster.on("exit") up to its wait: nothing while fewer than `threads`
\* workers are counted ready; else the counter goes down, the worker leaves
\* this.workers and a second later spawnWorker runs.
onExit(ma, id) ==
    IF ma.workersReady < Threads THEN ma
    ELSE [ma EXCEPT !.workersReady = @ - 1,
                    !.workers = @ \ {id},
                    !.ready = @ \ {id},
                    !.timers = @ + 1]

MASTER_START ==
    /\ inFlight.master.pc = "new"
    /\ inFlight' = [inFlight EXCEPT !.master = startCluster(@)]
    /\ UNCHANGED settled

\* A worker's server has started: process.send("ready").
WORKER_READY ==
    \E id \in inFlight.master.live \ inFlight.master.sent :
        /\ inFlight' = [inFlight EXCEPT
                            !.master = onMessage([@ EXCEPT !.sent = @ \cup {id}], id)]
        /\ UNCHANGED settled

\* A worker process exits, at any time.
WORKER_EXIT ==
    \E id \in inFlight.master.live :
        /\ inFlight.master.exits < MaxExits
        /\ inFlight' = [inFlight EXCEPT
                            !.master = onExit([@ EXCEPT !.live = @ \ {id},
                                                        !.exits = @ + 1], id)]
        /\ UNCHANGED settled

\* The second of an exit handler is over: spawnWorker.
RESPAWN ==
    /\ inFlight.master.timers > 0
    /\ inFlight' = [inFlight EXCEPT !.master = spawnWorker([@ EXCEPT !.timers = @ - 1])]
    /\ UNCHANGED settled

MasterNext == \/ MASTER_START \/ WORKER_READY \/ WORKER_EXIT \/ RESPAWN

MasterSpec == Init /\ [][MasterNext]_vars

\* The timers of the event loop fire, and a running worker reaches its
\* process.send("ready"); nothing makes a worker exit.
MasterFairSpec ==
    /\ MasterSpec
    /\ WF_vars(MASTER_START)
    /\ WF_vars(WORKER_READY)
    /\ WF_vars(RESPAWN)

\* C38: once start() has resolved, every worker exit is followed by a
\* respawn: whatever workers exit and whenever, the master eventually has
\* `threads` live workers again.
C38_ExitedWorkersAreRespawned ==
    inFlight.master.pc = "started" ~> Cardinality(inFlight.master.live) = Threads

(***************************************************************************)
(* Certs.get: the self-signed certificate and its expiry file              *)
(***************************************************************************)

\* The seconds the clock of the certificate directory may reach.
MaxSeconds == 100000

\* Certs.get at Date.now() = now (in seconds): with the three files present
\* and now > expires the files are returned; else a certificate is generated
\* and written with the expiry now + 86400 * 360 milliseconds.
Certs_get(ce) ==
    LET files   == ce.files
        exist   == files.cert # -1 /\ files.privateKey # -1 /\ files.expiry # -1
        written == [cert |-> ce.now, privateKey |-> ce.now,
                    expiry |-> ce.now + (86400 * 360) \div 1000]
    IN  IF exist /\ ce.now > files.expiry
        THEN [ce EXCEPT !.pc = "got", !.found = files,
                        !.got = [cert |-> files.cert, privateKey |-> files.privateKey]]
        ELSE [ce EXCEPT !.pc = "got", !.found = files, !.files = written,
                        !.got = [cert |-> ce.now, privateKey |-> ce.now]]

CERTS_GET ==
    /\ inFlight' = [inFlight EXCEPT !.certs = Certs_get(@)]
    /\ UNCHANGED settled

\* Some hours pass.
CERTS_CLOCK ==
    /\ inFlight.certs.now + 20000 <= MaxSeconds
    /\ inFlight' = [inFlight EXCEPT !.certs.now = @ + 20000, !.certs.pc = "idle"]
    /\ UNCHANGED settled

\* One of the three files is removed from the directory.
CERTS_FILE_REMOVED ==
    \E f \in {"cert", "privateKey", "expiry"} :
        /\ inFlight.certs.files[f] # -1
        /\ inFlight' = [inFlight EXCEPT !.certs.files[f] = -1, !.certs.pc = "idle"]
        /\ UNCHANGED settled

CertsNext == \/ CERTS_GET \/ CERTS_CLOCK \/ CERTS_FILE_REMOVED

CertsSpec == Init /\ [][CertsNext]_vars

\* The files hold a certificate, a key and an expiry that has not passed at `now`.
Unexpired(files, now) ==
    /\ files.cert # -1 /\ files.privateKey # -1 /\ files.expiry # -1
    /\ now <= files.expiry

\* C39: Certs.get returns the stored certificate and key when the three files
\* exist and the stored expiry has not passed; when a file is missing or the
\* expiry has passed it generates a certificate and persists it with an
\* expiry 360 days (86400 * 360 seconds) ahead.
C39_CertsGet ==
    LET ce == inFlight.certs
    IN  ce.pc = "got" =>
            IF Unexpired(ce.found, ce.now)
            THEN /\ ce.got = [cert |-> ce.found.cert, privateKey |-> ce.found.privateKey]
                 /\ ce.files = ce.found
            ELSE /\ ce.got = [cert |-> ce.now, privateKey |-> ce.now]
                 /\ ce.files.cert = ce.now /\ ce.files.privateKey = ce.now
                 /\ ce.files.expiry = ce.now + 86400 * 360

\* The first half of C39 alone: an unexpired certificate is the one returned.
UnexpiredCertIsReturned ==
    LET ce == inFlight.certs
    IN  ce.pc = "got" /\ Unexpired(ce.found, ce.now) =>
            ce.got = [cert |-> ce.found.cert, privateKey |-> ce.found.privateKey]

\* The second half of C39 without the length of the expiry: a certificate is
\* generated when a file is missing or the stored expiry has passed.
ExpiredCertIsReplaced ==
    LET ce == inFlight.certs
    IN  ce.pc = "got" /\ ~Unexpired(ce.found, ce.now) =>
            ce.got = [cert |-> ce.now, privateKey |-> ce.now]

====
